---- MODULE Spec2Model ----
(***************************************************************************)
(* Model of the hotel-export converter: ExcelParser (src/excelParser.js),  *)
(* the column resolver, the row filter, the record transformer and the     *)
(* date normaliser, as a state machine over one parser instance; the       *)
(* serializer CSVExporter (src/unnamed/part_000) and the application App   *)
(* (src/app.js) that drives both; the fetch listener of the service worker *)
(* (src/unnamed/part_001).                                                 *)
(*                                                                         *)
(* JavaScript values are tagged records: Str(s), Num(n), Undefined, NaN.   *)
(* Strings are TLA+ strings; a number is its integer part n plus the       *)
(* decimal digits of its fraction (frac = "" for an integer).  Arrays are  *)
(* Arr(<<...>>) and are indexed from 0 through At, as in the source.       *)
(***************************************************************************)
EXTENDS Integers, Sequences, FiniteSets, TLC

VARIABLES file, pc, worksheet, outcome, call, ret, timeZone, app, sw

vars == <<file, pc, worksheet, outcome, call, ret, timeZone, app, sw>>

---------------------------------------------------------------------------
(* JavaScript values *)

Str(s) == [t |-> "string", s |-> s]

NumF(n, f) == [t |-> "number", n |-> n, frac |-> f]

Num(n) == NumF(n, "")

Undefined == [t |-> "undefined"]

NaN == [t |-> "NaN"]

Arr(a) == [t |-> "array", a |-> a]

NotArray == [t |-> "object"]

IsArray(x) == x.t = "array"

IsNumber(v) == v.t = "number"

IsString(v) == v.t = "string"

\* row[index] for a 0-based index; out of range (or -1) reads undefined
At(row, index) ==
    IF IsArray(row) /\ index >= 0 /\ index < Len(row.a) THEN row.a[index + 1] ELSE Undefined

---------------------------------------------------------------------------
(* Strings *)

Char(s, i) == SubSeq(s, i, i)

Digits == "0123456789"

UpperLetters == "ABCDEFGHIJKLMNOPQRSTUVWXYZ"

LowerLetters == "abcdefghijklmnopqrstuvwxyz"

DigitOf == [c \in {Char(Digits, i) : i \in 1..10} |->
              (CHOOSE i \in 1..10 : Char(Digits, i) = c) - 1]

IsDigit(c) == c \in DOMAIN DigitOf

DigitVal(c) == DigitOf[c]

IsSpace(c) == c \in {" ", "\t"}

RECURSIVE TrimStart(_)
TrimStart(s) ==
    IF Len(s) > 0 /\ IsSpace(Char(s, 1)) THEN TrimStart(SubSeq(s, 2, Len(s))) ELSE s

RECURSIVE TrimEnd(_)
TrimEnd(s) ==
    IF Len(s) > 0 /\ IsSpace(Char(s, Len(s))) THEN TrimEnd(SubSeq(s, 1, Len(s) - 1)) ELSE s

\* String.prototype.trim
Trim(s) == TrimEnd(TrimStart(s))

LowerOf == [c \in {Char(UpperLetters, i) : i \in 1..26} |->
              Char(LowerLetters, CHOOSE i \in 1..26 : Char(UpperLetters, i) = c)]

LowerChar(c) == IF c \in DOMAIN LowerOf THEN LowerOf[c] ELSE c

RECURSIVE ToLowerCase(_)
ToLowerCase(s) ==
    IF Len(s) = 0 THEN "" ELSE LowerChar(Char(s, 1)) \o ToLowerCase(SubSeq(s, 2, Len(s)))

StartsWith(s, p) == Len(s) >= Len(p) /\ SubSeq(s, 1, Len(p)) = p

EndsWith(text, part) ==
    Len(text) >= Len(part) /\ SubSeq(text, Len(text) - Len(part) + 1, Len(text)) = part

\* text contains part
Contains(text, part) ==
    \E i \in 1..(Len(text) - Len(part) + 1) : SubSeq(text, i, i + Len(part) - 1) = part

RECURSIVE NatToStr(_)
NatToStr(n) ==
    IF n < 10 THEN Char(Digits, n + 1) ELSE NatToStr(n \div 10) \o Char(Digits, (n % 10) + 1)

IntToStr(n) == IF n < 0 THEN "-" \o NatToStr(0 - n) ELSE NatToStr(n)

\* String(value)
String(v) ==
    CASE v.t = "string" -> v.s
      [] v.t = "number" -> IntToStr(v.n) \o (IF v.frac = "" THEN "" ELSE "." \o v.frac)
      [] v.t = "NaN" -> "NaN"
      [] v.t = "undefined" -> "undefined"
      [] OTHER -> "[object Object]"

\* JavaScript truthiness of a value
Truthy(v) ==
    CASE v.t = "string" -> v.s # ""
      [] v.t = "number" -> ~(v.n = 0 /\ v.frac = "")
      [] v.t = "NaN" -> FALSE
      [] v.t = "undefined" -> FALSE
      [] OTHER -> TRUE

\* padStart(2, '0')
PadStart2(s) == IF Len(s) < 2 THEN "0" \o s ELSE s

\* length of the longest prefix of s made of decimal digits
RECURSIVE DigitPrefixLen(_)
DigitPrefixLen(s) ==
    IF Len(s) > 0 /\ IsDigit(Char(s, 1)) THEN 1 + DigitPrefixLen(SubSeq(s, 2, Len(s))) ELSE 0

\* value of a string of decimal digits
RECURSIVE DigitsToNat(_)
DigitsToNat(s) ==
    IF Len(s) = 0 THEN 0
    ELSE 10 * DigitsToNat(SubSeq(s, 1, Len(s) - 1)) + DigitVal(Char(s, Len(s)))

\* a fraction's digits without trailing zeros
RECURSIVE StripTrailingZeros(_)
StripTrailingZeros(s) ==
    IF Len(s) > 0 /\ Char(s, Len(s)) = "0" THEN StripTrailingZeros(SubSeq(s, 1, Len(s) - 1)) ELSE s

\* the text after an optional sign
Unsigned(s) == IF StartsWith(s, "-") \/ StartsWith(s, "+") THEN SubSeq(s, 2, Len(s)) ELSE s

\* the number read from the first k characters of body, all digits
IntegerOf(neg, body, k) ==
    IF k = 0 THEN NaN
    ELSE Num(IF neg THEN 0 - DigitsToNat(SubSeq(body, 1, k)) ELSE DigitsToNat(SubSeq(body, 1, k)))

parseIntTrimmed(s) == IntegerOf(StartsWith(s, "-"), Unsigned(s), DigitPrefixLen(Unsigned(s)))

\* parseInt(text, 10): leading whitespace, optional sign, longest digit prefix
parseInt(text) == parseIntTrimmed(TrimStart(text))

\* the number of fraction digits at the head of rest
FractionLen(rest) ==
    IF StartsWith(rest, ".") THEN DigitPrefixLen(SubSeq(rest, 2, Len(rest))) ELSE 0

\* the number with k integer digits at the head of body and fk fraction digits
\* after the point at the head of rest (the fraction of a negative number is
\* dropped: no negative number is in the date-serial range)
FloatOf(neg, body, k, rest, fk) ==
    IF k = 0 /\ fk = 0 THEN NaN
    ELSE IF neg THEN Num(0 - DigitsToNat(SubSeq(body, 1, k)))
    ELSE NumF(DigitsToNat(SubSeq(body, 1, k)), StripTrailingZeros(SubSeq(rest, 2, fk + 1)))

FloatAfter(neg, body, k, rest) == FloatOf(neg, body, k, rest, FractionLen(rest))

FloatIn(neg, body, k) == FloatAfter(neg, body, k, SubSeq(body, k + 1, Len(body)))

parseFloatTrimmed(s) == FloatIn(StartsWith(s, "-"), Unsigned(s), DigitPrefixLen(Unsigned(s)))

\* parseFloat(text): leading whitespace, optional sign, digits, optional
\* fraction (exponents are not modelled)
parseFloat(text) == parseFloatTrimmed(TrimStart(text))

---------------------------------------------------------------------------
(* ExcelParser: configuration *)

\* this.columnMapping, in declaration order
columnMapping ==
    << [field |-> "BookingNumber",
        possibleNames |-> <<"Reservation Number", "Reservation Num">>, type |-> "string"],
       [field |-> "OTANumber", possibleNames |-> <<"Voucher">>, type |-> "string"],
       [field |-> "Name", possibleNames |-> <<"Main Guest">>, type |-> "string"],
       [field |-> "NumberOfAdults", possibleNames |-> <<"AD", "Adults">>, type |-> "number"],
       [field |-> "NumberOfChildren", possibleNames |-> <<"CH", "Children">>, type |-> "number"],
       [field |-> "DateFrom", possibleNames |-> <<"Arrival", "Arrival Date">>, type |-> "string"],
       [field |-> "DateTo", possibleNames |-> <<"Departure", "Departure Date">>, type |-> "string"] >>

requiredColumn == "BookingNumber"

MappedFields == {columnMapping[i].field : i \in 1..Len(columnMapping)}

Config(f) == columnMapping[CHOOSE i \in 1..Len(columnMapping) : columnMapping[i].field = f]

---------------------------------------------------------------------------
(* Column resolver *)

\* the loop of findColumnIndex from position i on; headerRow is the array's
\* element sequence
RECURSIVE scanHeader(_, _, _)
scanHeader(headerRow, normalizedColumnName, i) ==
    IF i >= Len(headerRow) THEN -1
    ELSE LET h == headerRow[i + 1]
             headerValue == ToLowerCase(Trim(String(IF Truthy(h) THEN h ELSE Str(""))))
         IN IF headerValue = normalizedColumnName THEN i
            ELSE scanHeader(headerRow, normalizedColumnName, i + 1)
\* findColumnIndex without the lower-casing of the searched name
findColumnIndex_CaseSensitive(headerRow, columnName) ==
    scanHeader(headerRow, Trim(columnName), 0)

findColumnIndex(headerRow, columnName) ==
    scanHeader(headerRow, ToLowerCase(Trim(columnName)), 0)

\* the inner loop of findColumnIndices over possibleNames from the k-th on
RECURSIVE firstFound(_, _, _)
firstFound(headerRow, possibleNames, k) ==
    IF k > Len(possibleNames) THEN -1
    ELSE LET index == findColumnIndex(headerRow, possibleNames[k])
         IN IF index # -1 THEN index ELSE firstFound(headerRow, possibleNames, k + 1)

findColumnIndices(headerRow) ==
    [f \in MappedFields |-> firstFound(headerRow, Config(f).possibleNames, 1)]

---------------------------------------------------------------------------
(* Date normaliser *)

\* a worksheet is [t |-> "sheet", ref |-> range or Undefined, cells |-> [address -> cell]];
\* a cell is [t |-> "cell", type, v, w]
NoWorksheet == Undefined

Cell(type, v, w) == [t |-> "cell", type |-> type, v |-> v, w |-> w]

\* this.worksheet[cellAddress]
SheetCell(ws, cellAddress) ==
    IF cellAddress \in DOMAIN ws.cells THEN ws.cells[cellAddress] ELSE Undefined

RECURSIVE numberToColumnLetter(_)
numberToColumnLetter(num) ==
    IF num < 0 THEN ""
    ELSE numberToColumnLetter((num \div 26) - 1) \o Char(UpperLetters, (num % 26) + 1)

\* a Date is the time elapsed since the epoch instant, local midnight of
\* 30 December 1899: whole days and the minutes of the last, partial day
InvalidDate == [t |-> "date", valid |-> FALSE]

\* the minutes in the fraction 0.frac of a day (the first four digits of frac)
FracMinutes(frac) ==
    (DigitsToNat(SubSeq(frac \o "0000", 1, 4)) * 1440) \div 10000

\* excelEpoch.getTime() + excelDate * 24 * 60 * 60 * 1000
excelDateToJSDate(excelDate) ==
    IF IsNumber(excelDate)
    THEN [t |-> "date", valid |-> TRUE, days |-> excelDate.n,
          minutes |-> FracMinutes(excelDate.frac)]
    ELSE InvalidDate

\* the host's time zone as far as the local fields of a Date depend on it: for
\* the instants from day `from` to day `until` after the epoch the zone's UTC
\* offset is `shift` minutes more than its UTC offset at the epoch instant
TimeZone(from, until, shift) == [from |-> from, until |-> until, shift |-> shift]

\* a zone that keeps one offset
FixedZone == TimeZone(0, 0, 0)

\* the fixed zone; a zone whose offset was lowered by 4 minutes on day 5441
\* (23 November 1914) and stayed so; a zone with summer time from day 45011
\* (26 March 2023) to day 45228 (29 October 2023)
TimeZones ==
    { FixedZone, TimeZone(5441, 1000000, -4), TimeZone(45011, 45228, 60) }

\* the local calendar day of a valid Date, counted from 30 December 1899
LocalDay(date) ==
    IF timeZone.from <= date.days /\ date.days <= timeZone.until
    THEN date.days + ((date.minutes + timeZone.shift) \div 1440)
    ELSE date.days

EpochDaysBeforeUnix == 25569

\* the year, month and day of the calendar day `days` days after 30 December
\* 1899 (proleptic Gregorian): getFullYear / getMonth()+1 / getDate
CivilFromDays(days) ==
    LET z == days - EpochDaysBeforeUnix + 719468
        era == z \div 146097
        doe == z - era * 146097
        yoe == (doe - (doe \div 1460) + (doe \div 36524) - (doe \div 146096)) \div 365
        doy == doe - (365 * yoe + (yoe \div 4) - (yoe \div 100))
        mp == (5 * doy + 2) \div 153
        d == doy - ((153 * mp + 2) \div 5) + 1
        m == IF mp < 10 THEN mp + 3 ELSE mp - 9
        y == yoe + era * 400 + (IF m <= 2 THEN 1 ELSE 0)
    IN [year |-> y, month |-> m, day |-> d]

\* `${day}.${month}.${year}` with day and month padded
formatCivil(c) ==
    PadStart2(IntToStr(c.day)) \o "." \o PadStart2(IntToStr(c.month)) \o "." \o IntToStr(c.year)

formatDate(date) ==
    IF ~date.valid THEN "" ELSE formatCivil(CivilFromDays(LocalDay(date)))

\* numValue > 1 && numValue < 1000000 for a number (false for NaN)
InSerialRange(v) ==
    /\ IsNumber(v)
    /\ (v.n > 1 \/ (v.n = 1 /\ v.frac # ""))
    /\ v.n < 1000000

\* /^\d{2}\.\d{2}\.\d{4}$/.test(s)
IsCanonicalDate(s) ==
    /\ Len(s) = 10
    /\ \A i \in {1, 2, 4, 5, 7, 8, 9, 10} : IsDigit(Char(s, i))
    /\ Char(s, 3) = "."
    /\ Char(s, 6) = "."

---------------------------------------------------------------------------
(* Record transformer *)

\* the date branch of getCellValue (lines 219-250) for the worksheet cell found
dateCellText(stringValue, numValue, cell) ==
    IF cell # Undefined
    THEN IF Truthy(cell.w) THEN String(cell.w)
         ELSE IF /\ InSerialRange(numValue)
                 /\ (cell.type = "d" \/ (Truthy(cell.v) /\ IsNumber(cell.v)))
              THEN formatDate(excelDateToJSDate(IF Truthy(cell.v) THEN cell.v ELSE numValue))
              ELSE stringValue
    ELSE IF InSerialRange(numValue) THEN formatDate(excelDateToJSDate(numValue))
    ELSE stringValue

\* getCellValue from stringValue on (lines 214-253)
cellText(stringValue, index, rowIndex, columnName, ws) ==
    IF columnName \in {"DateFrom", "DateTo"} /\ rowIndex > 0 /\ ws # NoWorksheet
    THEN dateCellText(stringValue, parseFloat(stringValue),
                      SheetCell(ws, numberToColumnLetter(index) \o IntToStr(rowIndex + 1)))
    ELSE stringValue

\* ws is this.worksheet at the time of the call
getCellValue(row, index, rowIndex, columnName, ws) ==
    IF index = -1 \/ At(row, index) = Undefined THEN ""
    ELSE cellText(Trim(String(At(row, index))), index, rowIndex, columnName, ws)

\* fromDisplay preferring any display text to the numeric value
fromDisplay_DisplayFirst(wValue, cell) == wValue

\* the cell.w branch (lines 350-360), wValue the trimmed display string
fromDisplay(wValue, cell) ==
    IF IsCanonicalDate(wValue) THEN wValue
    ELSE IF InSerialRange(cell.v) THEN formatDate(excelDateToJSDate(cell.v))
    ELSE wValue

\* the value read from the worksheet cell (lines 345-370); "" when nothing is set
dateFromCell(cell) ==
    IF cell = Undefined THEN ""
    ELSE IF Truthy(cell.w) THEN fromDisplay(Trim(String(cell.w)), cell)
    ELSE IF cell.v # Undefined
    THEN IF InSerialRange(cell.v) THEN formatDate(excelDateToJSDate(cell.v))
         ELSE String(cell.v)
    ELSE ""

\* the conversion of the grid value (lines 378-386)
rawToDate(rawValue, numValue) ==
    IF InSerialRange(numValue) THEN formatDate(excelDateToJSDate(numValue))
    ELSE Trim(String(rawValue))

\* the fallback on the grid value (lines 377-387)
dateFromRaw(dateValue, rawValue) ==
    IF dateValue = "" /\ rawValue # Undefined /\ rawValue # Str("")
    THEN rawToDate(rawValue,
                   IF rawValue.t \in {"number", "NaN"} THEN rawValue
                   ELSE parseFloat(String(rawValue)))
    ELSE dateValue

\* the DateFrom/DateTo branch of transformRow's loop body
dateField(row, columnIndex, rowIndex, ws) ==
    Str(dateFromRaw(
            IF rowIndex > 0 /\ ws # NoWorksheet /\ columnIndex # -1
            THEN dateFromCell(SheetCell(ws, numberToColumnLetter(columnIndex)
                                                \o IntToStr(rowIndex + 1)))
            ELSE "",
            At(row, columnIndex)))

\* stripBooking removing every leading zero of the booking number
RECURSIVE stripBooking_AllZeros(_, _)
stripBooking_AllZeros(csvFieldName, cellValue) ==
    IF csvFieldName = "BookingNumber" /\ StartsWith(cellValue, "0")
    THEN stripBooking_AllZeros(csvFieldName, SubSeq(cellValue, 2, Len(cellValue)))
    ELSE cellValue

\* lines 397-404: one leading "0" of the booking number removed
stripBooking(csvFieldName, cellValue) ==
    IF csvFieldName = "BookingNumber" /\ StartsWith(cellValue, "0")
    THEN SubSeq(cellValue, 2, Len(cellValue))
    ELSE cellValue

\* storeNumber storing 0 for an integer field that does not parse
storeNumber_NaNAsZero(numValue) == IF numValue = NaN THEN Num(0) ELSE numValue

\* line 410: isNaN(numValue) ? '' : numValue
storeNumber(numValue) == IF numValue = NaN THEN Str("") ELSE numValue

\* lines 407-413: the value stored for the field
storeField(csvFieldName, cellValue) ==
    IF Config(csvFieldName).type = "number"
    THEN storeNumber(parseInt(cellValue))
    ELSE Str(cellValue)

\* the standard branch of transformRow's loop body
standardField(row, columnIndex, rowIndex, csvFieldName, ws) ==
    storeField(csvFieldName,
               stripBooking(csvFieldName,
                            getCellValue(row, columnIndex, rowIndex, csvFieldName, ws)))

\* mappedField defaulting an unresolved integer field to 0
mappedField_ZeroDefault(row, columnIndices, rowIndex, csvFieldName, ws) ==
    IF columnIndices[csvFieldName] = -1
    THEN (IF Config(csvFieldName).type = "number" THEN Num(0) ELSE Str(""))
    ELSE IF csvFieldName \in {"DateFrom", "DateTo"}
    THEN dateField(row, columnIndices[csvFieldName], rowIndex, ws)
    ELSE standardField(row, columnIndices[csvFieldName], rowIndex, csvFieldName, ws)

\* one iteration of transformRow's loop: the value left in transformed[csvFieldName]
mappedField(row, columnIndices, rowIndex, csvFieldName, ws) ==
    IF columnIndices[csvFieldName] = -1 THEN Str("")
    ELSE IF csvFieldName \in {"DateFrom", "DateTo"}
    THEN dateField(row, columnIndices[csvFieldName], rowIndex, ws)
    ELSE standardField(row, columnIndices[csvFieldName], rowIndex, csvFieldName, ws)

\* transformed numbering the records with the running id
transformed_RunningId(mapped, id) ==
    [Id |-> Str(IntToStr(id)),
     BookingNumber |-> mapped["BookingNumber"],
     OTANumber |-> mapped["OTANumber"],
     Name |-> mapped["Name"],
     NumberOfAdults |-> mapped["NumberOfAdults"],
     NumberOfTeens |-> Num(0),
     NumberOfChildren |-> mapped["NumberOfChildren"],
     NumberOfBabys |-> Num(0),
     DateFrom |-> mapped["DateFrom"],
     DateTo |-> mapped["DateTo"]]

\* the record returned (lines 308-319, 416-419), mapped the values the loop stored
transformed(mapped, id) ==
    [Id |-> IF Truthy(mapped["BookingNumber"]) THEN mapped["BookingNumber"] ELSE Str(""),
     BookingNumber |-> mapped["BookingNumber"],
     OTANumber |-> mapped["OTANumber"],
     Name |-> mapped["Name"],
     NumberOfAdults |-> mapped["NumberOfAdults"],
     NumberOfTeens |-> Num(0),
     NumberOfChildren |-> mapped["NumberOfChildren"],
     NumberOfBabys |-> Num(0),
     DateFrom |-> mapped["DateFrom"],
     DateTo |-> mapped["DateTo"]]

transformRow(row, columnIndices, id, rowIndex, ws) ==
    transformed([f \in MappedFields |-> mappedField(row, columnIndices, rowIndex, f, ws)], id)

---------------------------------------------------------------------------
(* parseFile *)

Error(message) == [t |-> "error", message |-> message]

Pending == [t |-> "pending"]

Resolved(value) == [t |-> "resolved", value |-> value]

Rejected(error) == [t |-> "rejected", error |-> error]

\* Array.prototype.join over an array of strings
RECURSIVE Join(_, _)
Join(strings, separator) ==
    IF Len(strings) = 0 THEN ""
    ELSE IF Len(strings) = 1 THEN strings[1]
    ELSE strings[1] \o separator \o Join(Tail(strings), separator)

\* headerRow.filter(h => h), each kept element as join renders it
RECURSIVE filterTruthy(_)
filterTruthy(headerRow) ==
    IF Len(headerRow) = 0 THEN <<>>
    ELSE (IF Truthy(Head(headerRow)) THEN <<String(Head(headerRow))>> ELSE <<>>)
            \o filterTruthy(Tail(headerRow))

MissingColumnMessage(headerRow) ==
    "Die erforderliche Spalte \""
        \o Join(Config(requiredColumn).possibleNames, "\" oder \"")
        \o "\" wurde nicht gefunden. Verfügbare Spalten: "
        \o Join(filterTruthy(headerRow), ", ")

NoValidRowsMessage ==
    "Keine gültigen Zeilen gefunden. Stellen Sie sicher, dass die Spalte \""
        \o Join(Config(requiredColumn).possibleNames, "\" oder \"")
        \o "\" Werte enthält."
\* keepRow keeping the rows whose booking number is blank
keepRow_KeepBlank(bookingNumber) == TRUE

\* line 117 negated: the row has a booking number
keepRow(bookingNumber) == ~(bookingNumber = "" \/ Trim(bookingNumber) = "")

\* the row loop of parseFile from grid position i on (jsonData[i] is
\* jsonData[i + 1] of the sequence); the result is processedRows
RECURSIVE processRows(_, _, _, _, _)
processRows(jsonData, columnIndices, i, rowNumber, ws) ==
    IF i >= Len(jsonData) THEN <<>>
    ELSE IF ~IsArray(jsonData[i + 1])
    THEN processRows(jsonData, columnIndices, i + 1, rowNumber, ws)
    ELSE IF ~keepRow(getCellValue(jsonData[i + 1], columnIndices[requiredColumn], -1, "", ws))
    THEN processRows(jsonData, columnIndices, i + 1, rowNumber, ws)
    ELSE <<transformRow(jsonData[i + 1], columnIndices, rowNumber, i, ws)>>
            \o processRows(jsonData, columnIndices, i + 1, rowNumber + 1, ws)

\* lines 127-138: the settlement for the processed rows
settle(processedRows, fileName) ==
    IF Len(processedRows) = 0 THEN Rejected(Error(NoValidRowsMessage))
    ELSE Resolved([rows |-> processedRows, fileName |-> fileName])

\* resolveAndProcess with the row loop started at the header row
resolveAndProcess_FromHeader(jsonData, columnIndices, fileName, ws) ==
    IF columnIndices[requiredColumn] = -1
    THEN Rejected(Error(MissingColumnMessage(jsonData[1].a)))
    ELSE settle(processRows(jsonData, columnIndices, 0, 1, ws), fileName)

\* lines 91-138: the required-column check and the row loop
resolveAndProcess(jsonData, columnIndices, fileName, ws) ==
    IF columnIndices[requiredColumn] = -1
    THEN Rejected(Error(MissingColumnMessage(jsonData[1].a)))
    ELSE settle(processRows(jsonData, columnIndices, 1, 1, ws), fileName)

\* parseGrid reporting an empty header row as an empty file
parseGrid_EmptyHeaderAsEmptyFile(jsonData, fileName, ws) ==
    IF Len(jsonData) = 0 THEN Rejected(Error("Die Excel-Datei ist leer."))
    ELSE IF ~IsArray(jsonData[1])
    THEN Rejected(Error("Die Excel-Datei enthält keine gültige Kopfzeile."))
    ELSE IF Len(jsonData[1].a) = 0 THEN Rejected(Error("Die Excel-Datei ist leer."))
    ELSE resolveAndProcess(jsonData, findColumnIndices(jsonData[1].a), fileName, ws)

\* lines 78-138 of the load handler: from the grid to the settlement of the promise
parseGrid(jsonData, fileName, ws) ==
    IF Len(jsonData) = 0 THEN Rejected(Error("Die Excel-Datei ist leer."))
    ELSE IF ~IsArray(jsonData[1]) \/ Len(jsonData[1].a) = 0
    THEN Rejected(Error("Die Excel-Datei enthält keine gültige Kopfzeile."))
    ELSE resolveAndProcess(jsonData, findColumnIndices(jsonData[1].a), fileName, ws)

\* lines 60-138 of the load handler: the first sheet's name is tested before
\* the sheet is read; jsonData is the grid the sheet yields when it is read
afterRead(firstSheetName, jsonData, fileName, ws) ==
    IF ~Truthy(firstSheetName)
    THEN Rejected(Error("Die Excel-Datei enthält keine Tabellen."))
    ELSE parseGrid(jsonData, fileName, ws)

\* the library's column letters of a 0-based column (encode_col)
RECURSIVE encodeCol1(_)
encodeCol1(col) ==
    IF col = 0 THEN ""
    ELSE encodeCol1((col - 1) \div 26) \o Char(UpperLetters, ((col - 1) % 26) + 1)

\* the library's address of the cell at 0-based row r, column c (encode_cell)
EncodeCell(r, c) == encodeCol1(c + 1) \o IntToStr(r + 1)

\* the grid value the reader derives from a cell
RawOf(cell) ==
    IF cell = Undefined THEN Str("") ELSE IF cell.v = Undefined THEN Str("") ELSE cell.v

\* XLSX.utils.sheet_to_json(worksheet, {header: 1, defval: '', raw: true}): one
\* array per row of the sheet's range, one element per column of the range, a
\* missing or valueless cell read as defval
SheetToJson(ws) ==
    IF ws = Undefined THEN <<>>
    ELSE IF ws.ref = Undefined THEN <<>>
    ELSE [R \in 1..(ws.ref.e.r - ws.ref.s.r + 1) |->
            Arr([C \in 1..(ws.ref.e.c - ws.ref.s.c + 1) |->
                   RawOf(SheetCell(ws, EncodeCell(ws.ref.s.r + R - 1, ws.ref.s.c + C - 1)))])]

Corrupt == [t |-> "corrupt"]

\* workbook.SheetNames[0]
FirstSheetName(workbook) ==
    IF Len(workbook.SheetNames) = 0 THEN Undefined ELSE Str(workbook.SheetNames[1])

\* workbook.Sheets[firstSheetName]
FirstSheet(workbook) ==
    IF workbook.SheetNames[1] \in DOMAIN workbook.Sheets
    THEN workbook.Sheets[workbook.SheetNames[1]]
    ELSE Undefined

\* lines 66-138: this.worksheet is set and the sheet's grid is parsed
parseSheet(sheet, fileName) ==
    [outcome |-> parseGrid(SheetToJson(sheet), fileName, sheet), worksheet |-> sheet]

\* onload looking the date cells up in the worksheet the parser held before
\* the handler, when it held one
onload_HeldSheet(f, ws) ==
    IF f.content = Corrupt
    THEN [outcome |-> Rejected(Error("File is not a spreadsheet")), worksheet |-> ws]
    ELSE IF ~Truthy(FirstSheetName(f.content))
    THEN [outcome |-> Rejected(Error("Die Excel-Datei enthält keine Tabellen.")),
          worksheet |-> ws]
    ELSE [outcome |-> parseGrid(SheetToJson(FirstSheet(f.content)), f.name,
                                IF ws = NoWorksheet THEN FirstSheet(f.content) ELSE ws),
          worksheet |-> FirstSheet(f.content)]

\* reader.onload for file f with this.worksheet = ws before the handler:
\* the settlement of the promise and this.worksheet after the handler
onload(f, ws) ==
    IF f.content = Corrupt
    THEN [outcome |-> Rejected(Error("File is not a spreadsheet")), worksheet |-> ws]
    ELSE IF ~Truthy(FirstSheetName(f.content))
    THEN [outcome |-> Rejected(Error("Die Excel-Datei enthält keine Tabellen.")),
          worksheet |-> ws]
    ELSE parseSheet(FirstSheet(f.content), f.name)

onerror == Rejected(Error("Fehler beim Lesen der Datei. Bitte versuchen Sie es erneut."))

---------------------------------------------------------------------------
(* CSVExporter *)

csvColumns ==
    <<"Id", "BookingNumber", "OTANumber", "Name", "NumberOfAdults", "NumberOfTeens",
      "NumberOfChildren", "NumberOfBabys", "DateFrom", "DateTo">>

delimiter == ";"

Null == [t |-> "null"]

\* stringValue.includes(c) for a character c
Includes(stringValue, c) == \E i \in 1..Len(stringValue) : Char(stringValue, i) = c

\* doubleQuotes leaving the double quotes as they are
doubleQuotes_Single(stringValue) == stringValue

\* stringValue.replace(/"/g, '""')
RECURSIVE doubleQuotes(_)
doubleQuotes(stringValue) ==
    IF Len(stringValue) = 0 THEN ""
    ELSE (IF Char(stringValue, 1) = "\"" THEN "\"\"" ELSE Char(stringValue, 1))
            \o doubleQuotes(SubSeq(stringValue, 2, Len(stringValue)))

\* escapeText without the test for a line feed
escapeText_NoLineFeed(stringValue) ==
    IF \/ Includes(stringValue, delimiter)
       \/ Includes(stringValue, "\"")
       \/ Includes(stringValue, "\r")
    THEN "\"" \o doubleQuotes(stringValue) \o "\""
    ELSE stringValue

\* lines 42-46 of escapeCSVValue
escapeText(stringValue) ==
    IF \/ Includes(stringValue, delimiter)
       \/ Includes(stringValue, "\"")
       \/ Includes(stringValue, "\n")
       \/ Includes(stringValue, "\r")
    THEN "\"" \o doubleQuotes(stringValue) \o "\""
    ELSE stringValue

escapeCSVValue(value) == escapeText(String(value))

\* row[column] of a record (a function from its property names to values)
Prop(row, column) == IF column \in DOMAIN row THEN row[column] ELSE Undefined

\* line 55: row[column] !== undefined && row[column] !== null ? row[column] : ''
fieldValue(value) == IF value # Undefined /\ value # Null THEN value ELSE Str("")

\* lines 53-58: the line of one record
dataRow(row) ==
    Join([i \in 1..Len(csvColumns) |-> escapeCSVValue(fieldValue(Prop(row, csvColumns[i])))],
         delimiter)

\* line 50
header ==
    Join([i \in 1..Len(csvColumns) |-> escapeCSVValue(Str(csvColumns[i]))], delimiter)

\* joinLines with a bare line feed between the lines
joinLines_LineFeed(lines) == Join(lines, "\n")

\* line 61: [header, ...dataRows].join('\r\n')
joinLines(lines) == Join(lines, "\r\n")

Thrown(error) == [t |-> "thrown", error |-> error]

Returned(value) == [t |-> "returned", value |-> value]

\* createCSV returning an empty text when there is nothing to export
createCSV_EmptyText(rows) ==
    IF ~IsArray(rows) \/ Len(rows.a) = 0
    THEN Returned("")
    ELSE Returned(joinLines(<<header>> \o [k \in 1..Len(rows.a) |-> dataRow(rows.a[k])]))

createCSV(rows) ==
    IF ~IsArray(rows) \/ Len(rows.a) = 0
    THEN Thrown(Error("Keine Daten zum Exportieren verfügbar."))
    ELSE Returned(joinLines(<<header>> \o [k \in 1..Len(rows.a) |-> dataRow(rows.a[k])]))

---------------------------------------------------------------------------
(* Inputs of the parse: workbooks *)

MaxDataRows == 2

\* a text cell and a number cell as the reader produces them
S(text) == Cell("s", Str(text), Str(text))

N(n) == Cell("n", Num(n), Str(IntToStr(n)))

\* a number cell with display text w (Undefined: no display text)
D(n, w) == Cell("n", Num(n), w)

E2EHeader ==
    <<S("Reservation Num"), S("Voucher"), S("Main Guest"), S("AD"), S("CH"),
      S("Arrival"), S("Departure")>>

SheetHeaders ==
    { E2EHeader,
      <<S("Voucher"), S("Main Guest"), N(0), S("Arrival")>>,
      <<S("departure date"), S(" RESERVATION NUMBER "), S("Adults"), S("Arrival Date")>> }

\* the display texts a reader can attach to the date serial n of 15 March 2023
DateCells(n) ==
    { D(n, Str(IntToStr(n))), D(n, Undefined), D(n, Str("3/15/23")),
      D(n, Str("15.03.2023")) }

E2ERows ==
    { <<S("0012345"), S("V1"), S("J. Doe"), N(2), N(1), from, D(45005, Str("45005"))>> :
        from \in DateCells(45000) }

SheetRows ==
    E2ERows \cup
    { <<Undefined, S("V2"), S("A. Roe"), N(1), Undefined, N(45000), N(45005)>>,
      <<S("45010"), N(77), S("12.05.2024"), S("x"), S("0"), Undefined, Undefined>> }

\* the non-empty sequences over set of length at most n
SeqsUpTo(set, n) == UNION {[1..k -> set] : k \in 0..n}

CellGrids == {<<h>> \o rows : h \in SheetHeaders, rows \in SeqsUpTo(SheetRows, MaxDataRows)}

Origins == {[r |-> 0, c |-> 0], [r |-> 1, c |-> 1]}

GridWidth(grid) == Len(grid[1])

\* the worksheet holding the cells of grid with its top-left cell at origin
SheetAt(grid, origin) ==
    LET Pos == {p \in (1..Len(grid)) \X (1..GridWidth(grid)) :
                   p[2] <= Len(grid[p[1]]) /\ grid[p[1]][p[2]] # Undefined}
        addr(p) == EncodeCell(origin.r + p[1] - 1, origin.c + p[2] - 1)
    IN [t |-> "sheet",
        ref |-> [s |-> origin,
                 e |-> [r |-> origin.r + Len(grid) - 1, c |-> origin.c + GridWidth(grid) - 1]],
        cells |-> [a \in {addr(p) : p \in Pos} |->
                     LET p == CHOOSE q \in Pos : addr(q) = a IN grid[p[1]][p[2]]]]

\* a sheet without a range: no cell was ever written
EmptySheet == [t |-> "sheet", ref |-> Undefined, cells |-> <<>>]

Workbook(names, sheet) ==
    [t |-> "workbook", SheetNames |-> names, Sheets |-> [n \in {names[i] : i \in 1..Len(names)} |-> sheet]]

Workbooks ==
    {Workbook(<<"Sheet1">>, SheetAt(g, o)) : g \in CellGrids, o \in Origins}
        \cup {Workbook(<<"Sheet1", "Sheet2">>, EmptySheet), Workbook(<<>>, EmptySheet)}

File(name, type, readable, content) ==
    [name |-> name, type |-> type, readable |-> readable, content |-> content]

XlsxType == "application/vnd.openxmlformats-officedocument.spreadsheetml.sheet"

Files ==
    {File("export.xlsx", XlsxType, TRUE, c) : c \in Workbooks \cup {Corrupt}}
        \cup {File("export.xlsx", XlsxType, FALSE, Corrupt)}

---------------------------------------------------------------------------
(* ExcelParser.isValidFileType and App *)

XlsType == "application/vnd.ms-excel"

validTypes == {XlsxType, XlsType}

validExtensions == {".xlsx", ".xls"}

\* isValidFileType taking a name that holds an extension anywhere
isValidFileType_NameContains(f) ==
    \/ f.type \in validTypes
    \/ \E ext \in validExtensions : Contains(ToLowerCase(f.name), ext)

isValidFileType(f) ==
    \/ f.type \in validTypes
    \/ \E ext \in validExtensions : EndsWith(ToLowerCase(f.name), ext)

Sections == {"upload", "processing", "result", "error"}

\* the App after its constructor: no data, nothing saved; hidden[s] tells
\* whether section s carries the class hidden (before the first operation
\* only the upload section of the page does not), saved the downloads the
\* exporter has started
NewApp ==
    [t |-> "app", currentData |-> Null, hidden |-> [s \in Sections |-> s # "upload"],
     errorMessage |-> "", saved |-> <<>>]

hideAllSections(a) == [a EXCEPT !.hidden = [s \in Sections |-> TRUE]]

showError(a, message) ==
    [hideAllSections(a) EXCEPT !.hidden["error"] = FALSE, !.errorMessage = message]

showProcessing(a) == [hideAllSections(a) EXCEPT !.hidden["processing"] = FALSE]

\* showResult leaving the other sections as they are
showResult_NoHide(a, result) == [a EXCEPT !.hidden["result"] = FALSE]

showResult(a, result) == [hideAllSections(a) EXCEPT !.hidden["result"] = FALSE]

\* error.message || 'Ein unbekannter Fehler ist aufgetreten.'
messageOf(error) ==
    IF error.message # "" THEN error.message ELSE "Ein unbekannter Fehler ist aufgetreten."

\* handleFile after the await (lines 113-124), settled the settled promise
afterParse(a, settled) ==
    IF settled.t = "resolved"
    THEN showResult([a EXCEPT !.currentData = settled.value], settled.value)
    ELSE showError(a, messageOf(settled.error))

\* CSVExporter.downloadCSV: the download the link click starts
startDownload(a, csvContent) ==
    [a EXCEPT !.saved = Append(@, [csvContent |-> csvContent])]

\* the try block of App.downloadCSV (lines 229-240), csv the outcome of createCSV
exportData(a, csv) ==
    IF csv.t = "thrown"
    THEN showError(a, "Fehler beim Erstellen der CSV-Datei. Bitte versuchen Sie es erneut.")
    ELSE startDownload(a, csv.value)

\* whether App.downloadCSV passes its first test (line 224)
hasData(a) ==
    /\ a.currentData # Null
    /\ Len(a.currentData.rows) # 0

\* App.downloadCSV
downloadCSV(a) ==
    IF ~hasData(a) THEN showError(a, "Keine Daten zum Exportieren verfügbar.")
    ELSE exportData(a, createCSV(Arr(a.currentData.rows)))

\* App.reset
reset(a) == [hideAllSections(a) EXCEPT !.currentData = Null, !.hidden["upload"] = FALSE]

---------------------------------------------------------------------------
(* The parser as a state machine: parseFile calls on one ExcelParser *)

NoCall == [op |-> "none"]

NoRet == [t |-> "none"]

\* no App is constructed: the parser is used on its own
NoApp == [t |-> "none"]

\* no service worker is registered
NoWorker == [t |-> "none"]

Calls == DOMAIN pc

Init ==
    /\ file \in [{1} -> Files]
    /\ pc = [c \in {1} |-> "idle"]
    /\ outcome = [c \in {1} |-> Pending]
    /\ worksheet = NoWorksheet
    /\ call = NoCall
    /\ ret = NoRet
    /\ timeZone \in TimeZones
    /\ app = NoApp
    /\ sw = NoWorker

\* parseFile(file) up to reader.readAsArrayBuffer(file)
ParseFile(c) ==
    /\ pc[c] = "idle"
    /\ pc' = [pc EXCEPT ![c] = "reading"]
    /\ UNCHANGED <<file, worksheet, outcome, call, ret, timeZone, app, sw>>

\* reader.onload
OnLoad(c) ==
    /\ pc[c] = "reading"
    /\ file[c].readable
    /\ \E r \in {onload(file[c], worksheet)} :
          /\ outcome' = [outcome EXCEPT ![c] = r.outcome]
          /\ worksheet' = r.worksheet
    /\ pc' = [pc EXCEPT ![c] = "done"]
    /\ UNCHANGED <<file, call, ret, timeZone, app, sw>>

\* reader.onerror
OnError(c) ==
    /\ pc[c] = "reading"
    /\ ~file[c].readable
    /\ outcome' = [outcome EXCEPT ![c] = onerror]
    /\ pc' = [pc EXCEPT ![c] = "done"]
    /\ UNCHANGED <<file, worksheet, call, ret, timeZone, app, sw>>

Next ==
    \/ \E c \in Calls : ParseFile(c)
    \/ \E c \in Calls : OnLoad(c)
    \/ \E c \in Calls : OnError(c)

Spec == Init /\ [][Next]_vars

---------------------------------------------------------------------------
(* Two parseFile calls on one ExcelParser whose file reads overlap *)

\* the rows of the sheets the two calls read: the end-to-end rows and a row
\* with other dates in the same cells
OverlapRows ==
    E2ERows \cup
    { <<S("777"), S("V9"), S("K. Poe"), N(1), N(0), D(45100, Undefined),
        D(45105, Str("45105"))>> }

OverlapFiles ==
    {File("first.xlsx", XlsxType, TRUE, Workbook(<<"Sheet1">>, SheetAt(<<E2EHeader, row>>, o))) :
        row \in OverlapRows, o \in Origins}
        \cup {File("first.xlsx", XlsxType, TRUE, Workbook(<<>>, EmptySheet)),
              File("first.xlsx", XlsxType, TRUE, Corrupt),
              File("first.xlsx", XlsxType, FALSE, Corrupt)}

\* both calls are made before either read completes; the loads and errors of
\* the two readers are then delivered in any order, each handler running to
\* its end before the next event is taken
InitOverlap ==
    /\ file \in [{1, 2} -> OverlapFiles]
    /\ pc = [c \in {1, 2} |-> "idle"]
    /\ outcome = [c \in {1, 2} |-> Pending]
    /\ worksheet = NoWorksheet
    /\ call = NoCall
    /\ ret = NoRet
    /\ timeZone \in TimeZones
    /\ app = NoApp
    /\ sw = NoWorker

SpecOverlap == InitOverlap /\ [][Next]_vars

---------------------------------------------------------------------------
(* The column resolver applied to bounded header rows *)

MaxHeaderLen == 3

HeaderCells ==
    { Str("Reservation Number"), Str(" reservation num\t"), Str("AD"), Str("adults "),
      Str("Adults"), Str("VOUCHER"), Str("Arrival Date"), Str("Arrival"),
      Str("A D"), Str("Reservation"), Str(""), Num(0) }

HeaderRows == SeqsUpTo(HeaderCells, MaxHeaderLen)

NoFiles == <<>>

InitResolve ==
    /\ call \in {[op |-> "findColumnIndices", headerRow |-> h] : h \in HeaderRows}
    /\ ret = NoRet
    /\ file = NoFiles
    /\ pc = NoFiles
    /\ outcome = NoFiles
    /\ worksheet = NoWorksheet
    /\ timeZone = FixedZone
    /\ app = NoApp
    /\ sw = NoWorker

CallFindColumnIndices ==
    /\ call.op = "findColumnIndices"
    /\ ret = NoRet
    /\ ret' = [t |-> "indices", value |-> findColumnIndices(call.headerRow)]
    /\ UNCHANGED <<file, pc, worksheet, outcome, call, timeZone, app, sw>>

NextResolve == CallFindColumnIndices

SpecResolve == InitResolve /\ [][NextResolve]_vars

---------------------------------------------------------------------------
(* The record transformer applied to bounded rows, index tables and sheets *)

\* a grid value with the worksheet cell behind it (Undefined: no such cell)
Slot(raw, cell) == [raw |-> raw, cell |-> cell]

OfCell(cell) == Slot(RawOf(cell), cell)

BookingValues ==
    {Str("0012345"), Str("12345"), Str("0"), Str(" 0780 "), Num(12345), Num(0)}

IntegerValues ==
    {Num(2), Num(0), Str(" 3"), Str("12abc"), Str("abc"), Str("")}

ChildrenValues == {Num(1), Str("-")}

DateFromSlots ==
    { OfCell(D(45000, Str("45000"))),
      OfCell(D(45000, Str("15.03.2023"))),
      OfCell(D(45000, Str("01.01.2000"))),
      OfCell(D(45000, Str("3/15/23"))),
      OfCell(D(45000, Str(" 15.03.2023"))),
      OfCell(D(45000, Undefined)),
      OfCell(D(2000000, Str("2000000"))),
      OfCell(D(1, Str("1"))),
      OfCell(D(2, Str("2"))),
      OfCell(S("15.03.2023")),
      OfCell(S("15.03.2023 ")),
      OfCell(S("March 15 ")),
      OfCell(S("  ")),
      OfCell(Cell("n", NumF(45000, "5"), Str("45000.5"))),
      OfCell(Cell("n", Num(2000000), Str(" "))),
      OfCell(Cell("s", Str("45000"), Undefined)),
      OfCell(Cell("s", Str(" March 15 "), Undefined)),
      Slot(Num(45000), Undefined),
      Slot(Str(""), Undefined) }

DateToSlots == {OfCell(D(45005, Str("45005"))), OfCell(S("20.03.2023"))}

IndexTable(b, o, n, a, c, f, t) ==
    [x \in MappedFields |->
        CASE x = "BookingNumber" -> b
          [] x = "OTANumber" -> o
          [] x = "Name" -> n
          [] x = "NumberOfAdults" -> a
          [] x = "NumberOfChildren" -> c
          [] x = "DateFrom" -> f
          [] x = "DateTo" -> t]

IndexTables ==
    { IndexTable(0, 1, 2, 3, 4, 5, 6),
      IndexTable(-1, 1, 2, 3, 4, 5, 6),
      IndexTable(0, -1, 2, -1, 4, -1, 6),
      IndexTable(3, 1, 9, 0, 4, 6, 5) }

\* where the row sits: its grid position and whether a worksheet is held
Lookups ==
    {[rowIndex |-> 1, sheet |-> TRUE], [rowIndex |-> 0, sheet |-> TRUE],
     [rowIndex |-> 1, sheet |-> FALSE]}

\* the worksheet holding the two date cells of the row at grid position
\* rowIndex, in columns F and G of a sheet whose range starts at A1
DateSheet(from, to, rowIndex) ==
    LET fa == EncodeCell(rowIndex, 5)
        ta == EncodeCell(rowIndex, 6)
        at(a) == IF a = fa THEN from.cell ELSE to.cell
    IN [t |-> "sheet",
        ref |-> [s |-> [r |-> 0, c |-> 0], e |-> [r |-> rowIndex, c |-> 6]],
        cells |-> [a \in {x \in {fa, ta} : at(x) # Undefined} |-> at(a)]]

InitTransform ==
    /\ \E b \in BookingValues, a \in IntegerValues, c \in ChildrenValues,
          f \in DateFromSlots, t \in DateToSlots, table \in IndexTables, l \in Lookups :
          /\ call = [op |-> "transformRow",
                     row |-> Arr(<<b, Str("V1"), Str("J. Doe"), a, c, f.raw, t.raw>>),
                     columnIndices |-> table, id |-> 1, rowIndex |-> l.rowIndex]
          /\ worksheet = IF l.sheet THEN DateSheet(f, t, l.rowIndex) ELSE NoWorksheet
    /\ ret = NoRet
    /\ file = NoFiles
    /\ pc = NoFiles
    /\ outcome = NoFiles
    /\ timeZone \in TimeZones
    /\ app = NoApp
    /\ sw = NoWorker

CallTransformRow ==
    /\ call.op = "transformRow"
    /\ ret = NoRet
    /\ ret' = [t |-> "record",
               value |-> transformRow(call.row, call.columnIndices, call.id, call.rowIndex,
                                      worksheet)]
    /\ UNCHANGED <<file, pc, worksheet, outcome, call, timeZone, app, sw>>

NextTransform == CallTransformRow

SpecTransform == InitTransform /\ [][NextTransform]_vars

---------------------------------------------------------------------------
(* The grid part of the load handler applied to bounded grids *)

E2EValues ==
    <<Str("0012345"), Str("V1"), Str("J. Doe"), Num(2), Num(1), Num(45000), Num(45005)>>

GridHeaders ==
    { Arr([i \in 1..7 |-> E2EHeader[i].v]),
      Arr(<<Str("Voucher"), Num(0), Str("Main Guest"), Str("")>>),
      Arr(<<Str("AD"), Str(" reservation number ")>>),
      Arr(<<Str("Reservation Num"), Str("Reservation Number")>>),
      Arr(<<>>),
      NotArray }

GridRows ==
    { Arr(E2EValues),
      Arr(<<Str(""), Str("V2"), Str("A. Roe"), Num(1)>>),
      Arr(<<Str(" \t"), Str("  ")>>),
      Arr(<<Str("88"), Str("")>>),
      Arr(<<Num(0), Str(" 0099 ")>>),
      Arr(<<Str("x"), Num(770)>>),
      Arr(<<>>),
      NotArray }

Grids ==
    {<<>>} \cup {<<h>> \o rows : h \in GridHeaders, rows \in SeqsUpTo(GridRows, MaxDataRows)}

\* the load handler on a workbook whose first sheet name is firstSheetName and
\* whose first sheet yields jsonData (never read when the name is missing)
GridCall(firstSheetName, jsonData) ==
    [op |-> "parseGrid", firstSheetName |-> firstSheetName, jsonData |-> jsonData,
     fileName |-> "export.xlsx"]

InitGrid ==
    /\ call \in {GridCall(Str("Sheet1"), g) : g \in Grids}
                  \cup {GridCall(n, <<>>) : n \in {Undefined, Str("")}}
    /\ ret = NoRet
    /\ file = NoFiles
    /\ pc = NoFiles
    /\ outcome = NoFiles
    /\ worksheet = NoWorksheet
    /\ timeZone \in TimeZones
    /\ app = NoApp
    /\ sw = NoWorker

CallParseGrid ==
    /\ call.op = "parseGrid"
    /\ ret = NoRet
    /\ ret' = afterRead(call.firstSheetName, call.jsonData, call.fileName, worksheet)
    /\ UNCHANGED <<file, pc, worksheet, outcome, call, timeZone, app, sw>>

NextGrid == CallParseGrid

SpecGrid == InitGrid /\ [][NextGrid]_vars

---------------------------------------------------------------------------
(* The serializer applied to bounded record sequences *)

MaxRecords == 2

FieldTexts ==
    { "J. Doe", "Doe; J.", "say \"hi\"", "\"", "a\"\"b", "two\r\nlines", "line\nfeed",
      "carriage\rreturn", "", " x " }

Record(name) ==
    [Id |-> Str("012345"), BookingNumber |-> Str("012345"), OTANumber |-> Str("V;1"),
     Name |-> Str(name), NumberOfAdults |-> Num(2), NumberOfTeens |-> Num(0),
     NumberOfChildren |-> Str(""), NumberOfBabys |-> Num(0),
     DateFrom |-> Str("15.03.2023"), DateTo |-> Str("20.03.2023")]

\* records as the parser returns them, records that lack a property and
\* records that hold null
Records ==
    {Record(n) : n \in FieldTexts}
        \cup {[c \in DOMAIN Record(n) \ {"OTANumber", "Id"} |-> Record(n)[c]] :
                 n \in {"J. Doe", "Doe; J."}}
        \cup {[Record(n) EXCEPT !.DateTo = Null] : n \in {"J. Doe", "say \"hi\""}}

\* the host's zone where no date is converted
InitCSV ==
    /\ call \in {[op |-> "createCSV", rows |-> rows] :
                    rows \in {Arr(rs) : rs \in SeqsUpTo(Records, MaxRecords)}
                                \cup {NotArray, Undefined, Null}}
    /\ ret = NoRet
    /\ file = NoFiles
    /\ pc = NoFiles
    /\ outcome = NoFiles
    /\ worksheet = NoWorksheet
    /\ timeZone = FixedZone
    /\ app = NoApp
    /\ sw = NoWorker

CallCreateCSV ==
    /\ call.op = "createCSV"
    /\ ret = NoRet
    /\ ret' = createCSV(call.rows)
    /\ UNCHANGED <<file, pc, worksheet, outcome, call, timeZone, app, sw>>

NextCSV == CallCreateCSV

SpecCSV == InitCSV /\ [][NextCSV]_vars

---------------------------------------------------------------------------
(* The application: uploads, downloads and resets on one App *)

MaxUploads == 2

MaxDownloads == 1

\* a workbook that parses to one record
AppWorkbook ==
    Workbook(<<"Sheet1">>,
             SheetAt(<<<<S("Reservation Num"), S("Departure")>>,
                       <<S("0012345"), D(45005, Str("45005"))>>>>,
                     [r |-> 0, c |-> 0]))

\* files a user can drop: spreadsheets by type, by extension or by both, and
\* files that are neither
AppFiles ==
    { File("export.xlsx", XlsxType, TRUE, AppWorkbook),
      File("EXPORT.XLS", "", TRUE, AppWorkbook),
      File("list.csv", XlsType, FALSE, Corrupt),
      File("export.xlsx.pdf", "application/pdf", TRUE, AppWorkbook),
      File("xlsx", "", TRUE, AppWorkbook) }

InitApp ==
    /\ app = NewApp
    /\ sw = NoWorker
    /\ file = <<>>
    /\ pc = <<>>
    /\ outcome = <<>>
    /\ worksheet = NoWorksheet
    /\ call \in {[op |-> "createCSV", rows |-> rows] : rows \in {Arr(<<>>), NotArray}}
    /\ ret = NoRet
    /\ timeZone = FixedZone

\* App.handleFile(f) up to the await: the file is refused, or parseFile(f) is
\* called and has started to read
HandleFile(f) ==
    /\ IF ~isValidFileType(f)
       THEN /\ app' = showError(app, "Bitte wählen Sie eine gültige Excel-Datei (.xlsx oder .xls) aus.")
            /\ UNCHANGED <<file, pc, outcome>>
       ELSE /\ Len(pc) < MaxUploads
            /\ app' = showProcessing(app)
            /\ file' = Append(file, f)
            /\ pc' = Append(pc, "reading")
            /\ outcome' = Append(outcome, Pending)
    /\ UNCHANGED <<worksheet, call, ret, timeZone, sw>>

\* reader.onload of call c and handleFile's continuation after the await
AppOnLoad(c) ==
    /\ pc[c] = "reading"
    /\ file[c].readable
    /\ \E r \in {onload(file[c], worksheet)} :
          /\ outcome' = [outcome EXCEPT ![c] = r.outcome]
          /\ worksheet' = r.worksheet
          /\ app' = afterParse(app, r.outcome)
    /\ pc' = [pc EXCEPT ![c] = "done"]
    /\ UNCHANGED <<file, call, ret, timeZone, sw>>

\* reader.onerror of call c and handleFile's continuation after the await
AppOnError(c) ==
    /\ pc[c] = "reading"
    /\ ~file[c].readable
    /\ outcome' = [outcome EXCEPT ![c] = onerror]
    /\ app' = afterParse(app, onerror)
    /\ pc' = [pc EXCEPT ![c] = "done"]
    /\ UNCHANGED <<file, worksheet, call, ret, timeZone, sw>>

\* a click on the download button
DownloadCSV ==
    /\ Len(app.saved) < MaxDownloads
    /\ app' = downloadCSV(app)
    /\ UNCHANGED <<file, pc, worksheet, outcome, call, ret, timeZone, sw>>

\* a click on a reset button
Reset ==
    /\ app' = reset(app)
    /\ UNCHANGED <<file, pc, worksheet, outcome, call, ret, timeZone, sw>>

NextApp ==
    \/ \E f \in AppFiles : HandleFile(f)
    \/ \E c \in Calls : AppOnLoad(c)
    \/ \E c \in Calls : AppOnError(c)
    \/ DownloadCSV
    \/ Reset
    \/ CallCreateCSV

SpecApp == InitApp /\ [][NextApp]_vars

---------------------------------------------------------------------------
(* The date conversion applied to bounded serials *)

MaxSerial == 40

SerialValues ==
    {Num(n) : n \in 0..MaxSerial}
        \cup { Num(59), Num(60), Num(61), Num(5440), Num(5441), Num(45000), Num(45011),
               Num(45100), Num(999999), NumF(1, "5"), NumF(45000, "5"), NumF(45100, "98"),
               NaN }

InitDate ==
    /\ call \in {[op |-> "excelDate", excelDate |-> v] : v \in SerialValues}
    /\ ret = NoRet
    /\ file = NoFiles
    /\ pc = NoFiles
    /\ outcome = NoFiles
    /\ worksheet = NoWorksheet
    /\ timeZone \in TimeZones
    /\ app = NoApp
    /\ sw = NoWorker

\* this.formatDate(this.excelDateToJSDate(v))
CallExcelDate ==
    /\ call.op = "excelDate"
    /\ ret = NoRet
    /\ ret' = [t |-> "text", value |-> formatDate(excelDateToJSDate(call.excelDate))]
    /\ UNCHANGED <<file, pc, worksheet, outcome, call, timeZone, app, sw>>

NextDate == CallExcelDate

SpecDate == InitDate /\ [][NextDate]_vars

---------------------------------------------------------------------------
(* The service worker (src/unnamed/part_001): its fetch listener *)

MaxEvents == 2

\* location.origin and the origin of the library's CDN
Origin == "https://app.example"

CdnOrigin == "https://cdn.example"

Url(origin, path) == [origin |-> origin, path |-> path]

Request(method, url) == [method |-> method, url |-> url]

Urls == {Url(Origin, "/app.js"), Url(CdnOrigin, "/xlsx.full.min.js")}

Requests == {Request(m, u) : m \in {"GET", "POST"}, u \in Urls}

Response(status, type, body) ==
    [t |-> "response", status |-> status, type |-> type, body |-> body]

\* the response of the catch handler (lines 130-136)
OfflineResponse ==
    Response(503, "default", "Offline - Bitte stellen Sie eine Internetverbindung her.")

\* the answer of an event whose respondWith promise rejects
NetworkError == [t |-> "networkError"]

\* fetch(request) rejected
Failed == [t |-> "failed"]

\* the responses fetch(request) can resolve with: for a same-origin request a
\* basic response, or a cors response after a redirect to another origin;
\* for a request to another origin a cors or an opaque response
NetworkResponses(request) ==
    IF request.url.origin = Origin
    THEN {Response(200, "basic", "net"), Response(404, "basic", "net"),
          Response(200, "cors", "net")}
    ELSE {Response(200, "cors", "net"), Response(404, "cors", "net"),
          Response(0, "opaque", "net")}

\* shouldCache storing a response of any status
shouldCache_AnyStatus(sameOrigin, response) ==
    sameOrigin => response.type = "basic"

\* the tests of lines 92 and 118: whether the network response is put in the cache
shouldCache(sameOrigin, response) ==
    /\ response.status = 200
    /\ sameOrigin => response.type = "basic"

\* the fetch listener up to its return (lines 70-107): a request that is not
\* a GET is left to the browser, a GET is answered through respondWith and
\* waits for caches.match.  cachedResponse is the value caches.match resolved
\* with, fetched whether fetch(request) was called, network what it settled
\* with, answer what respondWith's promise settled with, put the clone that
\* waits for caches.open to be stored
listener(request) ==
    [request |-> request,
     pc |-> IF request.method # "GET" THEN "unanswered" ELSE "matching",
     cachedResponse |-> Undefined, fetched |-> FALSE, network |-> Undefined,
     answer |-> Undefined, put |-> Undefined]

\* the callback of caches.match (lines 84-89, 109-115)
afterMatch(ev, cachedResponse) ==
    IF cachedResponse # Undefined
    THEN [ev EXCEPT !.pc = "answered", !.cachedResponse = cachedResponse,
                    !.answer = cachedResponse]
    ELSE [ev EXCEPT !.pc = "fetching", !.fetched = TRUE]

\* the callback of fetch (lines 90-100, 116-126)
afterFetch(ev, response) ==
    [ev EXCEPT !.pc = "answered", !.network = response, !.answer = response,
               !.put = IF shouldCache(ev.request.url.origin = Origin, response)
                       THEN response ELSE Undefined]

\* fetch rejects: the catch handler of the same-origin branch (lines 127-137);
\* the other branch has none and its promise rejects
afterFailure(ev) ==
    [ev EXCEPT !.pc = "answered", !.network = Failed,
               !.answer = IF ev.request.url.origin = Origin THEN OfflineResponse
                          ELSE NetworkError]

\* the worker after activation: the cache holds nothing or a page resource
\* stored by the install handler, no fetch event has been dispatched
Caches ==
    { [u \in Urls |-> Undefined],
      [u \in Urls |-> IF u = Url(Origin, "/app.js")
                        THEN Response(200, "basic", "installed") ELSE Undefined] }

InitWorker ==
    /\ sw \in {[t |-> "worker", cache |-> c, events |-> <<>>] : c \in Caches}
    /\ file = NoFiles
    /\ pc = NoFiles
    /\ outcome = NoFiles
    /\ worksheet = NoWorksheet
    /\ call = NoCall
    /\ ret = NoRet
    /\ timeZone = FixedZone
    /\ app = NoApp

\* a fetch event is dispatched and the listener runs
FetchEvent(request) ==
    /\ Len(sw.events) < MaxEvents
    /\ sw' = [sw EXCEPT !.events = Append(@, listener(request))]
    /\ UNCHANGED <<file, pc, worksheet, outcome, call, ret, timeZone, app>>

\* caches.match(request) resolves for event e
CacheMatch(e) ==
    /\ sw.events[e].pc = "matching"
    /\ sw' = [sw EXCEPT !.events[e] = afterMatch(@, sw.cache[@.request.url])]
    /\ UNCHANGED <<file, pc, worksheet, outcome, call, ret, timeZone, app>>

\* fetch(request) of event e resolves with response
NetworkResponds(e, response) ==
    /\ sw.events[e].pc = "fetching"
    /\ response \in NetworkResponses(sw.events[e].request)
    /\ sw' = [sw EXCEPT !.events[e] = afterFetch(@, response)]
    /\ UNCHANGED <<file, pc, worksheet, outcome, call, ret, timeZone, app>>

\* fetch(request) of event e rejects
NetworkFails(e) ==
    /\ sw.events[e].pc = "fetching"
    /\ sw' = [sw EXCEPT !.events[e] = afterFailure(@)]
    /\ UNCHANGED <<file, pc, worksheet, outcome, call, ret, timeZone, app>>

\* caches.open resolves for event e and cache.put stores the clone (lines
\* 94-97, 120-123)
CachePut(e) ==
    /\ sw.events[e].put # Undefined
    /\ sw' = [sw EXCEPT !.cache[sw.events[e].request.url] = sw.events[e].put,
                        !.events[e].put = Undefined]
    /\ UNCHANGED <<file, pc, worksheet, outcome, call, ret, timeZone, app>>

AllResponses == UNION {NetworkResponses(r) : r \in Requests}

NextWorker ==
    \/ \E r \in Requests : FetchEvent(r)
    \/ \E e \in DOMAIN sw.events : CacheMatch(e)
    \/ \E e \in DOMAIN sw.events : \E r \in AllResponses : NetworkResponds(e, r)
    \/ \E e \in DOMAIN sw.events : NetworkFails(e)
    \/ \E e \in DOMAIN sw.events : CachePut(e)

SpecWorker == InitWorker /\ [][NextWorker]_vars

---------------------------------------------------------------------------
(* Properties *)

Min(set) == CHOOSE x \in set : \A y \in set : x <= y

\* the elements of a finite set of integers in increasing order
Ascending(set) ==
    CHOOSE q \in [1..Cardinality(set) -> set] :
        \A i, j \in 1..Cardinality(set) : i < j => q[i] < q[j]

\* trimmed and lower-cased
Normalized(text) == ToLowerCase(Trim(text))

\* the 0-based positions of the header cells equal to alias after normalisation
MatchingCells(headerRow, alias) ==
    {i \in 0..(Len(headerRow) - 1) : Normalized(String(headerRow[i + 1])) = Normalized(alias)}

\* the index the resolver contract assigns to field f
ResolvedIndex(headerRow, f) ==
    LET names == Config(f).possibleNames
        matching == {k \in 1..Len(names) : MatchingCells(headerRow, names[k]) # {}}
    IN IF matching = {} THEN -1 ELSE Min(MatchingCells(headerRow, names[Min(matching)]))

\* C1: for every header row and every canonical field, findColumnIndices
\* returns the leftmost cell equal (trimmed, lower-cased) to the first alias in
\* declared order that matches any cell, and -1 when no alias matches.
C1_ColumnResolution ==
    ret.t = "indices" =>
        \A f \in MappedFields : ret.value[f] = ResolvedIndex(call.headerRow, f)

\* the second alias stands left of the first one and the first one still wins,
\* while another field stays unresolved
C1_Witness ==
    /\ ret.t = "indices"
    /\ call.headerRow = <<Str("adults "), Str("Adults"), Str("AD")>>
    /\ ret.value["NumberOfAdults"] = 2
    /\ ret.value["BookingNumber"] = -1

\* the data rows of the grid the row filter keeps, as grid positions
KeptPositions(jsonData, index) ==
    {i \in 1..(Len(jsonData) - 1) :
        /\ IsArray(jsonData[i + 1])
        /\ At(jsonData[i + 1], index) # Undefined
        /\ Trim(String(At(jsonData[i + 1], index))) # ""}

HeaderUsable(jsonData) ==
    /\ Len(jsonData) > 0
    /\ IsArray(jsonData[1])
    /\ Len(jsonData[1].a) > 0

\* C2: with the required column resolved, the records are exactly the data
\* rows whose required cell is non-blank after trimming, one record each, in
\* input order; blank, missing and non-sequence rows give no record and no
\* error of their own.
C2_RowFilter ==
    (ret # NoRet /\ call.op = "parseGrid" /\ HeaderUsable(call.jsonData)) =>
        LET indices == findColumnIndices(call.jsonData[1].a)
            kept == KeptPositions(call.jsonData, indices[requiredColumn])
            order == Ascending(kept)
        IN (indices[requiredColumn] # -1 /\ kept # {}) =>
              /\ ret.t = "resolved"
              /\ Len(ret.value.rows) = Cardinality(kept)
              /\ \A k \in 1..Cardinality(kept) :
                    ret.value.rows[k] =
                        transformRow(call.jsonData[order[k] + 1], indices, k, order[k], worksheet)

\* a non-sequence row between two kept rows is skipped and the order is kept
C2_Witness ==
    /\ ret.t = "resolved"
    /\ Len(call.jsonData) = 3
    /\ call.jsonData[2] = Arr(<<Str(" \t"), Str("  ")>>)
    /\ call.jsonData[3] = Arr(<<Str("88"), Str("")>>)
    /\ Len(ret.value.rows) = 1
    /\ ret.value.rows[1].BookingNumber = Str("88")

\* the text with one leading "0" removed
WithoutOneZero(text) ==
    IF Len(text) > 0 /\ Char(text, 1) = "0" THEN SubSeq(text, 2, Len(text)) ELSE text

\* C3: the stored BookingNumber of a kept row is the trimmed cell text with
\* exactly one leading '0' removed: "0012345" -> "012345", "12345" -> "12345",
\* "0" -> "".
C3_OneLeadingZero ==
    (ret.t = "record" /\ call.columnIndices[requiredColumn] # -1) =>
        LET v == At(call.row, call.columnIndices[requiredColumn])
            text == Trim(String(v))
        IN (v # Undefined /\ text # "") =>
              /\ ret.value.BookingNumber = Str(WithoutOneZero(text))
              /\ (text = "0012345" => ret.value.BookingNumber = Str("012345"))
              /\ (text = "12345" => ret.value.BookingNumber = Str("12345"))
              /\ (text = "0" => ret.value.BookingNumber = Str(""))

C3_Witness ==
    /\ ret.t = "record"
    /\ At(call.row, call.columnIndices[requiredColumn]) = Str("0012345")
    /\ ret.value.BookingNumber = Str("012345")

\* the decoding of serial v
SerialText(v) == formatDate(excelDateToJSDate(v))

\* the record of the end-to-end scenario with the given booking number
E2ERecord(bookingNumber) ==
    [Id |-> Str(bookingNumber), BookingNumber |-> Str(bookingNumber),
     OTANumber |-> Str("V1"), Name |-> Str("J. Doe"),
     NumberOfAdults |-> Num(2), NumberOfTeens |-> Num(0),
     NumberOfChildren |-> Num(1), NumberOfBabys |-> Num(0),
     DateFrom |-> Str(SerialText(Num(45000))), DateTo |-> Str(SerialText(Num(45005)))]

\* the first sheet of a readable workbook with at least one sheet name
SheetOf(f) == FirstSheet(f.content)

HasSheet(f) == f.readable /\ f.content # Corrupt /\ Truthy(FirstSheetName(f.content))

\* the file's grid is the end-to-end scenario: its header and its single row
IsE2EGrid(f) ==
    /\ HasSheet(f)
    /\ SheetToJson(SheetOf(f)) = <<Arr([i \in 1..7 |-> E2EHeader[i].v]), Arr(E2EValues)>>

StartsAtA1(sheet) == sheet.ref # Undefined /\ sheet.ref.s = [r |-> 0, c |-> 0]

\* the decoding of a date cell that holds a serial: its display string when
\* that has the form DD.MM.YYYY, the conversion of the serial otherwise
DecodedCell(cell) ==
    IF cell.w # Undefined /\ IsCanonicalDate(Trim(cell.w.s)) THEN Str(Trim(cell.w.s))
    ELSE Str(SerialText(cell.v))

\* the cell of sheet ws that produced the grid value of the single data row in
\* grid column c
E2ECell(ws, c) == SheetCell(ws, EncodeCell(ws.ref.s.r + 1, ws.ref.s.c + c))

\* C4: parsing the end-to-end grid (its header and its single data row) yields
\* exactly one record with Id and BookingNumber "12345", OTANumber "V1", Name
\* "J. Doe", adults 2, teens 0, children 1, babys 0, DateFrom the decoding of
\* serial 45000 and DateTo the decoding of serial 45005.
C4_AsStated ==
    \A c \in Calls :
        (pc[c] = "done" /\ IsE2EGrid(file[c])) =>
            /\ outcome[c].t = "resolved"
            /\ outcome[c].value.rows =
                  <<[E2ERecord("12345") EXCEPT
                        !.DateFrom = DecodedCell(E2ECell(SheetOf(file[c]), 5)),
                        !.DateTo = DecodedCell(E2ECell(SheetOf(file[c]), 6))]>>

\* what the code does deliver for the end-to-end grid when the sheet's range
\* starts at A1: one record with Id and BookingNumber "012345" (one leading
\* zero removed), OTANumber "V1", Name "J. Doe", adults 2, teens 0,
\* children 1, babys 0 and the decoded dates of the cells holding the serials
\* 45000 and 45005.
E2EAtA1 ==
    \A c \in Calls :
        (pc[c] = "done" /\ IsE2EGrid(file[c]) /\ StartsAtA1(SheetOf(file[c]))) =>
            /\ outcome[c].t = "resolved"
            /\ outcome[c].value.rows =
                  <<[E2ERecord("012345") EXCEPT
                        !.DateFrom = DecodedCell(SheetCell(SheetOf(file[c]), "F2")),
                        !.DateTo = DecodedCell(SheetCell(SheetOf(file[c]), "G2"))]>>
            /\ outcome[c].value.fileName = file[c].name

E2EAtA1_Reached ==
    \E c \in Calls :
        /\ pc[c] = "done"
        /\ IsE2EGrid(file[c])
        /\ StartsAtA1(SheetOf(file[c]))
        /\ SheetCell(SheetOf(file[c]), "F2").w = Str("3/15/23")
        /\ outcome[c].t = "resolved"
        /\ outcome[c].value.rows[1].DateFrom = Str("15.03.2023")

\* the labels of the header cells that hold one
RECURSIVE PresentLabels(_)
PresentLabels(headerRow) ==
    IF Len(headerRow) = 0 THEN <<>>
    ELSE (IF String(Head(headerRow)) # "" THEN <<String(Head(headerRow))>> ELSE <<>>)
            \o PresentLabels(Tail(headerRow))

RequiredUnresolved(jsonData) ==
    /\ HeaderUsable(jsonData)
    /\ \A k \in 1..Len(Config(requiredColumn).possibleNames) :
          MatchingCells(jsonData[1].a, Config(requiredColumn).possibleNames[k]) = {}

\* C5: when no alias of BookingNumber matches a header cell the parse fails
\* with the missing-required-column error, whose message lists every accepted
\* alias and the header labels actually present, and no record is produced.
C5_MissingRequiredColumn ==
    \A c \in Calls :
        (pc[c] = "done" /\ HasSheet(file[c])
            /\ RequiredUnresolved(SheetToJson(SheetOf(file[c])))) =>
            LET headerRow == SheetToJson(SheetOf(file[c]))[1].a
                names == Config(requiredColumn).possibleNames
            IN /\ outcome[c].t = "rejected"
               /\ StartsWith(outcome[c].error.message, "Die erforderliche Spalte")
               /\ \A k \in 1..Len(names) : Contains(outcome[c].error.message, names[k])
               /\ Contains(outcome[c].error.message,
                           "Spalten: " \o Join(PresentLabels(headerRow), ", "))

\* C6: if the row filter discards every data row (or there is none) the parse
\* fails with the no-valid-rows error and delivers no result; a successful
\* parse delivers at least one record and a failed one no record list.
C6_NoValidRows ==
    (ret # NoRet /\ call.op = "parseGrid") =>
        /\ (HeaderUsable(call.jsonData) =>
              LET indices == findColumnIndices(call.jsonData[1].a)
              IN (indices[requiredColumn] # -1
                    /\ KeptPositions(call.jsonData, indices[requiredColumn]) = {}) =>
                      ret = Rejected(Error(NoValidRowsMessage)))
        /\ (ret.t = "resolved" => Len(ret.value.rows) >= 1)
        /\ (ret.t # "resolved" => ret.t = "rejected" /\ DOMAIN ret = {"t", "error"})

\* two data rows, both discarded
C6_Witness ==
    /\ ret = Rejected(Error(NoValidRowsMessage))
    /\ Len(call.jsonData) = 3
    /\ call.jsonData[2] = NotArray
    /\ call.jsonData[3] = Arr(<<Str(""), Str("V2"), Str("A. Roe"), Num(1)>>)

\* C7: in every record of transformRow, for every row and index table, Id
\* equals the record's final BookingNumber (after leading-zero stripping).
C7_IdIsBookingNumber ==
    ret.t = "record" => ret.value.Id = ret.value.BookingNumber

C7_Witness ==
    /\ ret.t = "record"
    /\ At(call.row, call.columnIndices[requiredColumn]) = Str(" 0780 ")
    /\ ret.value.Id = Str("780")

SchemaFields ==
    {"Id", "BookingNumber", "OTANumber", "Name", "NumberOfAdults", "NumberOfTeens",
     "NumberOfChildren", "NumberOfBabys", "DateFrom", "DateTo"}

\* C8: every record has all 10 schema fields; a field whose column is
\* unresolved is the empty string; NumberOfTeens and NumberOfBabys are 0.
C8_SchemaDefaults ==
    ret.t = "record" =>
        /\ DOMAIN ret.value = SchemaFields
        /\ \A f \in MappedFields : call.columnIndices[f] = -1 => ret.value[f] = Str("")
        /\ ret.value.NumberOfTeens = Num(0)
        /\ ret.value.NumberOfBabys = Num(0)

C8_Witness ==
    /\ ret.t = "record"
    /\ call.columnIndices["NumberOfAdults"] = -1
    /\ call.columnIndices["DateFrom"] = -1
    /\ ret.value.NumberOfAdults = Str("")
    /\ ret.value.DateFrom = Str("")
    /\ ret.value.BookingNumber = Str("12345")

\* C9: NumberOfAdults and NumberOfChildren hold the parsed integer when the
\* cell value parses as an integer, and the empty string (never 0) when the
\* value is non-numeric, empty or the column is unresolved.
C9_IntegerFields ==
    ret.t = "record" =>
        \A f \in {"NumberOfAdults", "NumberOfChildren"} :
            LET v == At(call.row, call.columnIndices[f])
                text == IF v = Undefined THEN "" ELSE Trim(String(v))
            IN /\ (parseInt(text) # NaN => ret.value[f] = parseInt(text))
               /\ (parseInt(text) = NaN => ret.value[f] = Str(""))
               /\ (DigitPrefixLen(text) = Len(text) /\ text # "" =>
                      ret.value[f] = Num(DigitsToNat(text)))
               /\ (text \in {"", "abc", "-"} => ret.value[f] = Str(""))
               /\ (call.columnIndices[f] = -1 => ret.value[f] = Str(""))

C9_Witness ==
    /\ ret.t = "record"
    /\ At(call.row, call.columnIndices["NumberOfAdults"]) = Str(" 3")
    /\ At(call.row, call.columnIndices["NumberOfChildren"]) = Str("-")
    /\ ret.value.NumberOfAdults = Num(3)
    /\ ret.value.NumberOfChildren = Str("")

\* the worksheet cell transformRow consults for date field f of the call
ConsultedCell(f) ==
    IF call.rowIndex > 0 /\ worksheet # NoWorksheet /\ call.columnIndices[f] # -1
    THEN SheetCell(worksheet,
                   numberToColumnLetter(call.columnIndices[f]) \o IntToStr(call.rowIndex + 1))
    ELSE Undefined

\* C10 as stated: (1) a display string matching DD.MM.YYYY is used verbatim;
\* (2) otherwise a numeric value v with 1 < v < 1,000,000 is converted;
\* (3) otherwise any display string is used verbatim.
C10_AsStated ==
    ret.t = "record" =>
        \A f \in {"DateFrom", "DateTo"} :
            LET cell == ConsultedCell(f)
            IN cell # Undefined =>
                  IF cell.w # Undefined /\ IsCanonicalDate(cell.w.s)
                  THEN ret.value[f] = cell.w
                  ELSE IF InSerialRange(cell.v)
                  THEN ret.value[f] = Str(SerialText(cell.v))
                  ELSE cell.w # Undefined => ret.value[f] = cell.w

\* C10 amended: the display string is taken with surrounding whitespace
\* removed: (1) if it then matches DD.MM.YYYY it is the result; (2) otherwise a
\* numeric value v with 1 < v < 1,000,000 is converted as epoch + v days and
\* formatted DD.MM.YYYY; (3) otherwise a display string that is not blank is
\* the result, trimmed.  A non-canonical display string never overrides an
\* in-range numeric value and a canonical one always does.
C10_DateResolutionOrder ==
    ret.t = "record" =>
        \A f \in {"DateFrom", "DateTo"} :
            LET cell == ConsultedCell(f)
                shown == IF cell.w = Undefined THEN "" ELSE Trim(cell.w.s)
            IN cell # Undefined =>
                  IF IsCanonicalDate(shown)
                  THEN ret.value[f] = Str(shown)
                  ELSE IF InSerialRange(cell.v)
                  THEN ret.value[f] = Str(SerialText(cell.v))
                  ELSE shown # "" => ret.value[f] = Str(shown)

\* a canonical display string wins over an in-range serial of another day
C10_Witness ==
    /\ ret.t = "record"
    /\ ConsultedCell("DateFrom") = D(45000, Str("01.01.2000"))
    /\ ret.value.DateFrom = Str("01.01.2000")
    /\ ConsultedCell("DateTo") = D(45005, Str("45005"))
    /\ ret.value.DateTo = Str("20.03.2023")

\* the calendar date `days` whole days after 30 December 1899, as DD.MM.YYYY
CalendarText(days) == formatCivil(CivilFromDays(days))

\* C11: the conversion maps a serial s to the calendar date s whole days after
\* 30 December 1899, zero-padded DD.MM.YYYY; serial 2 gives "01.01.1900" and
\* serial 1 gives "31.12.1899"; an invalid date formats to the empty string.
C11_SerialToDate ==
    ret.t = "text" =>
        /\ IsNumber(call.excelDate) => ret.value = CalendarText(call.excelDate.n)
        /\ call.excelDate = Num(2) => ret.value = "01.01.1900"
        /\ call.excelDate = Num(1) => ret.value = "31.12.1899"
        /\ ~IsNumber(call.excelDate) => ret.value = ""

\* the positions of text at which sep occurs outside double quotes
SepPositions(text, sep) ==
    {i \in 1..(Len(text) - Len(sep) + 1) :
        /\ SubSeq(text, i, i + Len(sep) - 1) = sep
        /\ Cardinality({j \in 1..(i - 1) : Char(text, j) = "\""}) % 2 = 0}

\* the pieces of text between the occurrences of sep that lie outside double
\* quotes
RawSplit(text, sep) ==
    LET P == SepPositions(text, sep)
        pos(k) == CHOOSE p \in P : Cardinality({q \in P : q < p}) = k - 1
        first(k) == IF k = 1 THEN 1 ELSE pos(k - 1) + Len(sep)
        last(k) == IF k = Cardinality(P) + 1 THEN Len(text) ELSE pos(k) - 1
    IN [k \in 1..(Cardinality(P) + 1) |-> SubSeq(text, first(k), last(k))]

\* the lines of a CSV text and the fields of a line, quoting respected and kept
RawLines(text) == RawSplit(text, "\r\n")

RawFields(line) == RawSplit(line, ";")

\* s with every pair of double quotes replaced by one
RECURSIVE Undouble(_)
Undouble(s) ==
    IF Len(s) = 0 THEN ""
    ELSE IF StartsWith(s, "\"\"") THEN "\"" \o Undouble(SubSeq(s, 3, Len(s)))
    ELSE Char(s, 1) \o Undouble(SubSeq(s, 2, Len(s)))

IsQuoted(raw) == Len(raw) >= 2 /\ Char(raw, 1) = "\"" /\ Char(raw, Len(raw)) = "\""

Inner(raw) == SubSeq(raw, 2, Len(raw) - 1)

\* the value a reader takes from a raw field
Unquote(raw) == IF IsQuoted(raw) THEN Undouble(Inner(raw)) ELSE raw

\* the fields of a line as a reader takes them
SplitQuoted(line) ==
    LET fields == RawFields(line) IN [i \in 1..Len(fields) |-> Unquote(fields[i])]

QuoteCount(s) == Cardinality({i \in 1..Len(s) : Char(s, i) = "\""})

\* the string form of the value of a record's column, a missing one being empty
TextOf(row, column) ==
    IF column \in DOMAIN row /\ row[column] # Null THEN String(row[column]) ELSE ""

NeedsQuotes(text) == \E i \in 1..Len(text) : Char(text, i) \in {";", "\"", "\r", "\n"}

\* raw is text between double quotes with every double quote of text doubled
IsEscaped(raw, text) ==
    /\ IsQuoted(raw)
    /\ Undouble(Inner(raw)) = text
    /\ QuoteCount(Inner(raw)) = 2 * QuoteCount(text)

\* the call's k-th record
RecordAt(k) == call.rows.a[k]

\* C12: a field value is emitted between double quotes with every embedded
\* double quote doubled if and only if its string form contains a semicolon,
\* a double quote, a carriage return or a line feed; every other value is
\* emitted as its unmodified string form.
C12_EscapingRule ==
    ret.t = "returned" =>
        LET lines == RawLines(ret.value)
        IN /\ Len(lines) = Len(call.rows.a) + 1
           /\ \A k \in 1..Len(call.rows.a) :
                 LET fields == RawFields(lines[k + 1])
                 IN /\ Len(fields) = Len(csvColumns)
                    /\ \A i \in 1..Len(csvColumns) :
                          LET text == TextOf(RecordAt(k), csvColumns[i])
                          IN IF NeedsQuotes(text) THEN IsEscaped(fields[i], text)
                             ELSE fields[i] = text

C12_Witness ==
    /\ ret.t = "returned"
    /\ Len(call.rows.a) = 2
    /\ RecordAt(1).Name = Str("line\nfeed")
    /\ RecordAt(2).Name = Str("say \"hi\"")
    /\ RawFields(RawLines(ret.value)[2])[4] = "\"line\nfeed\""
    /\ RawFields(RawLines(ret.value)[3])[4] = "\"say \"\"hi\"\"\""
    /\ RawFields(RawLines(ret.value)[3])[5] = "2"

\* C13: splitting a line produced by createCSV on semicolons, respecting the
\* quoting and un-doubling quotes, recovers exactly the 10 field values of
\* the record as strings, also for values with semicolons or double quotes.
C13_RoundTrip ==
    ret.t = "returned" =>
        LET lines == RawLines(ret.value)
        IN /\ Len(lines) = Len(call.rows.a) + 1
           /\ \A k \in 1..Len(call.rows.a) :
                 SplitQuoted(lines[k + 1]) =
                     [i \in 1..10 |-> TextOf(RecordAt(k), csvColumns[i])]

C13_Witness ==
    /\ ret.t = "returned"
    /\ Len(call.rows.a) = 2
    /\ RecordAt(1).Name = Str("a\"\"b")
    /\ RecordAt(2).Name = Str("Doe; J.")
    /\ SplitQuoted(RawLines(ret.value)[2])[4] = "a\"\"b"
    /\ SplitQuoted(RawLines(ret.value)[3])[4] = "Doe; J."
    /\ SplitQuoted(RawLines(ret.value)[3])[3] = "V;1"

\* the header line of the export
HeaderLine ==
    "Id;BookingNumber;OTANumber;Name;NumberOfAdults;NumberOfTeens;"
        \o "NumberOfChildren;NumberOfBabys;DateFrom;DateTo"

\* the values of a record in the order of the export, a missing one empty
ValuesInOrder(row) ==
    <<TextOf(row, "Id"), TextOf(row, "BookingNumber"), TextOf(row, "OTANumber"),
      TextOf(row, "Name"), TextOf(row, "NumberOfAdults"), TextOf(row, "NumberOfTeens"),
      TextOf(row, "NumberOfChildren"), TextOf(row, "NumberOfBabys"),
      TextOf(row, "DateFrom"), TextOf(row, "DateTo")>>

\* C14: for n >= 1 records createCSV returns n+1 lines joined by CRLF with no
\* trailing line terminator: the 10 column names in the fixed order, then the
\* k-th record's 10 values in that order, a missing value as an empty field.
C14_Layout ==
    ret.t = "returned" =>
        LET lines == RawLines(ret.value)
        IN /\ Len(call.rows.a) >= 1
           /\ Len(lines) = Len(call.rows.a) + 1
           /\ ~EndsWith(ret.value, "\r\n")
           /\ ~EndsWith(ret.value, "\n")
           /\ lines[1] = HeaderLine
           /\ \A k \in 1..Len(call.rows.a) :
                 /\ SplitQuoted(lines[k + 1]) = ValuesInOrder(RecordAt(k))
                 /\ \A i \in 1..10 :
                       (\/ csvColumns[i] \notin DOMAIN RecordAt(k)
                        \/ RecordAt(k)[csvColumns[i]] = Null)
                           => RawFields(lines[k + 1])[i] = ""

C14_Witness ==
    /\ ret.t = "returned"
    /\ Len(call.rows.a) = 2
    /\ "OTANumber" \notin DOMAIN RecordAt(1)
    /\ RecordAt(2).DateTo = Null
    /\ ret.value = HeaderLine \o "\r\n" \o ";012345;;J. Doe;2;0;;0;15.03.2023;20.03.2023"
                      \o "\r\n" \o "012345;012345;\"V;1\";J. Doe;2;0;;0;15.03.2023;"

EmptyExportMessage == "Keine Daten zum Exportieren verfügbar."

\* the App holds parsed data with at least one record
HoldsRecords == app.currentData # Null /\ Len(app.currentData.rows) >= 1

\* C15: createCSV called with an empty collection or with a value that is not
\* a sequence fails with the empty-export error and returns no text; a download
\* requested while the App holds no parsed data with at least one record
\* shows the error view and starts no file save.
C15_EmptyExport ==
    /\ [](ret # NoRet /\ (~IsArray(call.rows) \/ Len(call.rows.a) = 0)
            => ret = Thrown(Error(EmptyExportMessage)))
    /\ [][(DownloadCSV /\ ~HoldsRecords)
            => (~app'.hidden["error"] /\ app'.saved = app.saved)]_vars

C15_Witness ==
    /\ call.rows = Arr(<<>>)
    /\ ret = Thrown(Error(EmptyExportMessage))
    /\ app.currentData = Null
    /\ ~app.hidden["error"]
    /\ app.errorMessage = EmptyExportMessage
    /\ app.saved = <<>>
    /\ Len(pc) = 1
    /\ outcome[1].t = "rejected"

\* the file has an accepted media type or a name ending in .xlsx or .xls
Accepted(f) ==
    \/ f.type = "application/vnd.openxmlformats-officedocument.spreadsheetml.sheet"
    \/ f.type = "application/vnd.ms-excel"
    \/ EndsWith(ToLowerCase(f.name), ".xlsx")
    \/ EndsWith(ToLowerCase(f.name), ".xls")

InvalidTypeMessage == "Bitte wählen Sie eine gültige Excel-Datei (.xlsx oder .xls) aus."

\* C17: handleFile rejects a file with neither an accepted media type nor a
\* name ending in .xlsx or .xls before parsing: the error view is shown,
\* parseFile is not invoked for it and the held parsed data stays as it was.
C17_FileTypeRejected ==
    [][\A f \in AppFiles :
          (HandleFile(f) /\ ~Accepted(f)) =>
              /\ ~app'.hidden["error"]
              /\ app'.errorMessage = InvalidTypeMessage
              /\ app'.currentData = app.currentData
              /\ pc' = pc
              /\ file' = file
              /\ outcome' = outcome
              /\ worksheet' = worksheet]_vars

C17_Witness ==
    /\ ~app.hidden["error"]
    /\ app.errorMessage = InvalidTypeMessage
    /\ HoldsRecords
    /\ Len(pc) = 1
    /\ pc[1] = "done"

\* the errors of a workbook without content: no sheet at all, or a first sheet
\* that yields no row
NoSheetsMessage == "Die Excel-Datei enthält keine Tabellen."

EmptyFileMessage == "Die Excel-Datei ist leer."

MissingHeaderMessage == "Die Excel-Datei enthält keine gültige Kopfzeile."

\* the one error a load reports, by the first test that fails in the order:
\* sheets, rows, header row, required column, kept rows ("" when none fails)
FirstFailure(firstSheetName, jsonData) ==
    IF firstSheetName = Undefined \/ firstSheetName = Str("") THEN NoSheetsMessage
    ELSE IF Len(jsonData) = 0 THEN EmptyFileMessage
    ELSE IF ~HeaderUsable(jsonData) THEN MissingHeaderMessage
    ELSE IF RequiredUnresolved(jsonData) THEN MissingColumnMessage(jsonData[1].a)
    ELSE IF KeptPositions(jsonData, findColumnIndices(jsonData[1].a)[requiredColumn]) = {}
    THEN NoValidRowsMessage
    ELSE ""

\* C19: a workbook with no sheets or whose first sheet yields zero rows fails
\* with the empty-workbook error; a first row that is not a sequence or is an
\* empty sequence fails with the missing-header error; these tests come
\* before the required-column test, which comes before the row loop; a
\* failed parse reports exactly the error of the first failing test and
\* carries no record, and a parse no test fails resolves.
C19_StructuralErrors ==
    (ret # NoRet /\ call.op = "parseGrid") =>
        LET failure == FirstFailure(call.firstSheetName, call.jsonData)
        IN IF failure = "" THEN ret.t = "resolved"
           ELSE ret = Rejected(Error(failure))

\* a header row that is not a sequence above two rows the filter would keep
C19_Witness ==
    /\ ret = Rejected(Error(MissingHeaderMessage))
    /\ call.firstSheetName = Str("Sheet1")
    /\ Len(call.jsonData) = 3
    /\ call.jsonData[1] = NotArray
    /\ call.jsonData[2] = Arr(<<Str("88"), Str("")>>)
    /\ call.jsonData[3] = Arr(<<Str("x"), Num(770)>>)

\* an empty header row, a workbook without sheets and a sheet without rows
C19_WitnessEmptyHeader ==
    /\ ret = Rejected(Error(MissingHeaderMessage))
    /\ call.jsonData[1] = Arr(<<>>)

C19_WitnessNoSheets ==
    /\ ret = Rejected(Error(NoSheetsMessage))
    /\ call.firstSheetName = Undefined

C19_WitnessNoRows ==
    /\ ret = Rejected(Error(EmptyFileMessage))
    /\ call.firstSheetName = Str("Sheet1")

\* C16: once a parseFile invocation has finished, with a result or with an
\* error, the parser holds no worksheet handle of that invocation.
C16_NoStateAfterParse ==
    \A c \in Calls : pc[c] = "done" => worksheet = NoWorksheet

\* the address transformRow consults for the date column at grid index c of
\* the row at grid position i
ConsultedAddress(c, i) == numberToColumnLetter(c) \o IntToStr(i + 1)

\* the address of the sheet cell from which the reader produced the grid
\* value at grid position i, grid index c
ProducingAddress(ws, c, i) == EncodeCell(ws.ref.s.r + i, ws.ref.s.c + c)

\* C20: for every kept data row at grid position i and every resolved date
\* column index c of a parsed sheet, the cell consulted for display text and
\* type is the cell the grid value row[c] was produced from, wherever the
\* sheet's used range starts.
C20_ConsultedCell ==
    \A k \in Calls :
        (pc[k] = "done" /\ outcome[k].t = "resolved") =>
            LET grid == SheetToJson(worksheet)
                indices == findColumnIndices(grid[1].a)
            IN \A i \in KeptPositions(grid, indices[requiredColumn]) :
                  \A f \in {"DateFrom", "DateTo"} :
                     indices[f] # -1 =>
                        ConsultedAddress(indices[f], i)
                            = ProducingAddress(worksheet, indices[f], i)

\* a consulted cell that exposes neither a display string nor a numeric value
NothingExposed(cell) ==
    \/ cell = Undefined
    \/ (cell.w = Undefined \/ cell.w = Str("")) /\ ~IsNumber(cell.v)

\* C18: for a date cell that exposes no display string and no numeric value,
\* a raw text that parses (as parseFloat parses) to a float v with
\* 1 < v < 1,000,000 gives the serial conversion of v as DD.MM.YYYY, any other
\* raw text gives the raw text with surrounding whitespace trimmed, and no
\* value at all gives the empty string.
C18_RawTextFallback ==
    ret.t = "record" =>
        \A f \in {"DateFrom", "DateTo"} :
            LET raw == At(call.row, call.columnIndices[f])
            IN (NothingExposed(ConsultedCell(f)) /\ ~IsNumber(raw)) =>
                  IF raw = Undefined \/ raw = Str("") THEN ret.value[f] = Str("")
                  ELSE IF InSerialRange(parseFloat(raw.s))
                  THEN ret.value[f] = Str(SerialText(parseFloat(raw.s)))
                  ELSE ret.value[f] = Str(Trim(raw.s))

\* the settlement of a parseFile call on file f made on a parser of its own
AloneOutcome(f) ==
    IF ~f.readable THEN onerror
    ELSE IF f.content = Corrupt THEN Rejected(Error("File is not a spreadsheet"))
    ELSE IF ~HasSheet(f) THEN Rejected(Error(NoSheetsMessage))
    ELSE parseGrid(SheetToJson(SheetOf(f)), f.name, SheetOf(f))

\* C21: for two parseFile calls on one parser whose reads overlap, under every
\* order of completion, each call is pending until its read completes and is
\* then settled once and for all, and its settlement (with the DateFrom and
\* DateTo of its records) is the one its own workbook gives, whatever
\* worksheet the other call left in the parser.
C21_OverlappingParses ==
    /\ [](\A c \in Calls :
             /\ pc[c] # "done" => outcome[c] = Pending
             /\ pc[c] = "done" => outcome[c] = AloneOutcome(file[c]))
    /\ [][\A c \in Calls : outcome[c] # Pending => outcome'[c] = outcome[c]]_vars

\* both calls have resolved with different dates, the call started on file 2
\* having completed first: the parser holds the sheet of call 1
C21_Witness ==
    /\ Calls = {1, 2}
    /\ pc[1] = "done" /\ pc[2] = "done"
    /\ outcome[1].t = "resolved" /\ outcome[2].t = "resolved"
    /\ outcome[1].value.rows[1].DateFrom # outcome[2].value.rows[1].DateFrom
    /\ SheetCell(SheetOf(file[2]), "F2") = D(45100, Undefined)
    /\ SheetOf(file[1]) # SheetOf(file[2])
    /\ worksheet = SheetOf(file[1])

\* the sections that do not carry the class hidden
Visible(a) == {s \in Sections : ~a.hidden[s]}

\* the step completes parse c with a result
Succeeds(c) ==
    /\ c \in DOMAIN pc
    /\ pc[c] = "reading"
    /\ pc'[c] = "done"
    /\ outcome'[c].t = "resolved"

\* C22: after every sequence of uploads (accepted or refused, parsed with a
\* result or with an error), downloads and resets exactly one of the four
\* sections is visible; while the result section is visible the held data
\* has at least one record and is the result of the most recent successful
\* parse (every successful parse becomes the held data and shows the result
\* section, and the result section only stays or becomes visible with the
\* data it was shown for); a reset leaves the upload section visible and no
\* data held.
C22_OneSectionVisible ==
    /\ [](/\ Cardinality(Visible(app)) = 1
          /\ ("result" \in Visible(app)) =>
                (app.currentData # Null /\ Len(app.currentData.rows) >= 1))
    /\ [][/\ \A c \in DOMAIN pc' :
               Succeeds(c) =>
                  (app'.currentData = outcome'[c].value /\ Visible(app') = {"result"})
          /\ ("result" \in Visible(app')) =>
               (\/ ("result" \in Visible(app) /\ app'.currentData = app.currentData)
                \/ \E c \in DOMAIN pc' :
                      Succeeds(c) /\ app'.currentData = outcome'[c].value)
          /\ Reset => (Visible(app') = {"upload"} /\ app'.currentData = Null)]_vars

\* two uploads have both been parsed with a result, the first one completing
\* last: its result is the one held and shown
C22_Witness ==
    /\ Len(pc) = 2
    /\ pc[1] = "done" /\ pc[2] = "done"
    /\ outcome[1].t = "resolved" /\ outcome[2].t = "resolved"
    /\ outcome[1].value.fileName = "EXPORT.XLS"
    /\ outcome[2].value.fileName = "export.xlsx"
    /\ Visible(app) = {"result"}
    /\ app.currentData = outcome[1].value

\* fetch(request) is called for event e in the step
Contacts(e) ==
    /\ sw'.events[e].fetched
    /\ e \in DOMAIN sw.events => ~sw.events[e].fetched

\* C23: in the fetch listener a request that is not a GET is never answered
\* by the worker; for a GET the network is contacted only if no cached
\* response matches, a matching cached response being the answer as it is; a
\* network response is stored in the cache only if its status is 200 and, for
\* a same-origin request, its type is basic; a same-origin GET that is not
\* cached and whose network fetch fails is answered with a 503 response.
C23_FetchListener ==
    /\ [](\A e \in DOMAIN sw.events :
             /\ (sw.events[e].request.method # "GET") =>
                   (/\ sw.events[e].answer = Undefined
                    /\ ~sw.events[e].fetched
                    /\ sw.events[e].put = Undefined)
             /\ (/\ sw.events[e].request.url.origin = Origin
                 /\ sw.events[e].network = Failed) =>
                   (/\ sw.events[e].answer.t = "response"
                    /\ sw.events[e].answer.status = 503))
    /\ [][/\ \A e \in DOMAIN sw'.events :
               /\ Contacts(e) =>
                     (/\ e \in DOMAIN sw.events
                      /\ sw.events[e].request.method = "GET"
                      /\ sw.cache[sw.events[e].request.url] = Undefined)
               /\ (/\ e \in DOMAIN sw.events
                   /\ sw.events[e].pc = "matching"
                   /\ sw'.events[e].pc # "matching"
                   /\ sw.cache[sw.events[e].request.url] # Undefined) =>
                     (/\ sw'.events[e].answer = sw.cache[sw.events[e].request.url]
                      /\ ~sw'.events[e].fetched)
          /\ \A u \in Urls :
               (sw'.cache[u] # sw.cache[u]) =>
                  (/\ sw'.cache[u].status = 200
                   /\ (u.origin = Origin) => (sw'.cache[u].type = "basic")
                   /\ \E e \in DOMAIN sw.events :
                         /\ sw.events[e].request = Request("GET", u)
                         /\ sw.events[e].network = sw'.cache[u])]_vars

\* a same-origin GET that missed the cache was answered with the 503
\* response after its fetch failed, and a GET to the other origin with the
\* network's 200 response, which the cache holds since
C23_Witness ==
    /\ sw.t = "worker"
    /\ Len(sw.events) = 2
    /\ sw.events[1].request = Request("GET", Url(Origin, "/app.js"))
    /\ sw.events[1].network = Failed
    /\ sw.events[1].answer = OfflineResponse
    /\ sw.events[2].request = Request("GET", Url(CdnOrigin, "/xlsx.full.min.js"))
    /\ sw.events[2].answer = Response(200, "cors", "net")
    /\ sw.cache[Url(CdnOrigin, "/xlsx.full.min.js")] = Response(200, "cors", "net")
    /\ sw.cache[Url(Origin, "/app.js")] = Undefined

\* a GET answered from the cache without a call of fetch
C23_WitnessCached ==
    /\ sw.t = "worker"
    /\ Len(sw.events) = 1
    /\ sw.events[1].answer = Response(200, "basic", "installed")
    /\ ~sw.events[1].fetched

====
